---- MODULE Spec2Model ----
(***************************************************************************)
(* Points ledger and tier-lifecycle engine of the loyalty backend:         *)
(* manual points adjustment (addPointsIndividual, addPointsBulk,           *)
(* reducePoints with redeemPointsFIFO) and the scheduled                   *)
(* processPointsAndTiers job (expiry sweep, tier retention, priority       *)
(* protection).  Time is an abstract clock; one clock unit is one day.     *)
(***************************************************************************)
EXTENDS Integers, Sequences, FiniteSets, TLC

VARIABLES
    clock,          \* the value new Date() yields
    customers,      \* Customer collection: total_points, coins, tier
    ledger,         \* LoyaltyPoints documents of each customer, oldest first
    transactions,   \* Transaction documents of each customer, oldest first
    criteria,       \* active TierEligibilityCriteria per tier
    priority,       \* PriorityCustomer documents of each customer
    resp,           \* outcome of the handler that ran last
    inflight        \* units of work started and not yet ended

vars == <<clock, customers, ledger, transactions, criteria, priority,
          resp, inflight>>

----------------------------------------------------------------------------
\* Bounds of the exploration

MaxTxns == 3
MaxTime == 2
MaxFail == 1
MaxRows == 2

----------------------------------------------------------------------------
\* Reference data

Cust == {"c1", "c2"}
UnknownCustomer == "cX"
NoTier == "none"
PriorityRecord(tier_id, is_active) ==
    [exists |-> TRUE, tier_id |-> tier_id, is_active |-> is_active]
NoRecord == [exists |-> FALSE, tier_id |-> "none", is_active |-> FALSE]
TierIds == {"t0", "t1", "t2"}

\* the Tier collection (static reference data)
tiers == TierIds

hierarchy_level == ("t0" :> 0) @@ ("t1" :> 1) @@ ("t2" :> 2)
points_required == ("t0" :> 0) @@ ("t1" :> 2) @@ ("t2" :> 3)

ExpiryDays == 1

PointCriteriaIds ==
    {"pcOne", "pcTwo", "pcBad", "pcPercent", "pcNaN", "pcEmpty"}
UnknownCriteria == "pcX"

pointSystem ==
    ("pcOne" :> << [pointType |-> "fixed", pointRate |-> 1,
                    finite |-> TRUE] >>) @@
    ("pcTwo" :> << [pointType |-> "percentage", pointRate |-> 5,
                    finite |-> TRUE],
                   [pointType |-> "fixed", pointRate |-> 2,
                    finite |-> TRUE] >>) @@
    ("pcBad" :> << [pointType |-> "fixed", pointRate |-> 0,
                    finite |-> TRUE] >>) @@
    ("pcPercent" :> << [pointType |-> "percentage", pointRate |-> 5,
                        finite |-> TRUE] >>) @@
    ("pcNaN" :> << [pointType |-> "fixed", pointRate |-> 0,
                    finite |-> FALSE] >>) @@
    ("pcEmpty" :> << >>)

----------------------------------------------------------------------------
\* Generic helpers

RECURSIVE SumSeq(_)
SumSeq(s) == IF s = << >> THEN 0 ELSE Head(s) + SumSeq(Tail(s))

RECURSIVE SumOver(_, _)
SumOver(S, f) ==
    IF S = {} THEN 0
    ELSE LET x == CHOOSE y \in S : TRUE IN f[x] + SumOver(S \ {x}, f)

Orders(S) ==
    { o \in [1..Cardinality(S) -> S] :
        \A i, j \in 1..Cardinality(S) : i # j => o[i] # o[j] }

----------------------------------------------------------------------------
\* Records

\* the AppType collection (static reference data): the names of the apps;
\* the _id of an app is its name, NoApp is null
AppTypes == {"Khedmah", "Shop (Web)"}
NoApp == "none"

\* the values of requested_by that the requests carry, trimmed
RequestedByNames == {"Khedmah", "khedmah", "Shop (Web)", "Other"}
DefaultRequestedBy == "Khedmah"

\* String.prototype.toLowerCase
toLowerCase ==
    ("Khedmah" :> "khedmah") @@ ("khedmah" :> "khedmah") @@
    ("Shop (Web)" :> "shop (web)") @@ ("Other" :> "other")

\* the lower-cased string that new RegExp(`^${normalized}$`, "i") matches:
\* the parentheses of a name are a group of the pattern, not characters
RegExpMatch ==
    ("Khedmah" :> "khedmah") @@ ("khedmah" :> "khedmah") @@
    ("Shop (Web)" :> "shop web") @@ ("Other" :> "other")

\* AppType.findOne({ name: new RegExp(`^${normalized}$`, "i") })
findAppType(requestedBy) ==
    LET found == { a \in AppTypes : toLowerCase[a] = RegExpMatch[requestedBy] }
    IN IF found = {} THEN NoApp ELSE CHOOSE a \in found : TRUE

\* appTypeMap[requestedBy.toLowerCase().trim()]
appTypeMap(requestedBy) ==
    LET found == { a \in AppTypes : toLowerCase[a] = toLowerCase[requestedBy] }
    IN IF found = {} THEN NoApp ELSE CHOOSE a \in found : TRUE

\* a transaction of the job: no app_type, no metadata.requested_by
NewTransaction(cid, type, pts, date, ref, prev, new) ==
    [customer_id |-> cid, transaction_type |-> type, points |-> pts,
     status |-> "completed", transaction_date |-> date,
     reference_id |-> ref, previous_tier |-> prev, new_tier |-> new,
     app_type |-> NoApp, requested_by |-> "none"]

\* a transaction of the manual handlers: app_type from findAppType,
\* metadata.requested_by from the body
ManualTransaction(cid, type, pts, date, requested_by) ==
    [NewTransaction(cid, type, pts, date, 0, "none", "none")
       EXCEPT !.app_type = findAppType(requested_by),
              !.requested_by = requested_by]

NewLoyaltyPoints(cid, pts, earned, expiry, txn) ==
    [customer_id |-> cid, points |-> pts, earnedAt |-> earned,
     expiryDate |-> expiry, status |-> "active", transaction_id |-> txn]

NoResp ==
    [op |-> "none", customer_id |-> "none", code |-> 0, requested |-> 0,
     available |-> 0, redeemed |-> 0, used |-> << >>, errors |-> {},
     logged |-> {}, rows |-> << >>, point_criteria |-> "none"]

Response(op, cid, code, requested, available, redeemed, used, errors) ==
    [op |-> op, customer_id |-> cid, code |-> code, requested |-> requested,
     available |-> available, redeemed |-> redeemed, used |-> used,
     errors |-> errors, logged |-> {}, rows |-> << >>,
     point_criteria |-> "none"]

\* _id of a ledger entry: the owning customer and the position among the
\* customer's entries
LedgerIds(L) == UNION { { <<c, i>> : i \in 1..Len(L[c]) } : c \in Cust }

Entry(L, id) == L[id[1]][id[2]]

TotalTxns == SumOver(Cust, [c \in Cust |-> Len(transactions[c])])

----------------------------------------------------------------------------
\* Unit of work (SafeTransaction): the writes issued under a session are
\* buffered and applied together on commit; an abort discards them.
\* A created ledger entry names its transaction by the position of that
\* transaction among the ones the unit of work creates for the customer.

StatusWrite(id, st) ==
    [id |-> id, setStatus |-> TRUE, status |-> st,
     setPoints |-> FALSE, points |-> 0]

PointsWrite(id, pts) ==
    [id |-> id, setStatus |-> FALSE, status |-> "active",
     setPoints |-> TRUE, points |-> pts]

RedeemWrite(id) ==
    [id |-> id, setStatus |-> TRUE, status |-> "redeemed",
     setPoints |-> TRUE, points |-> 0]

\* LoyaltyPoints.findByIdAndUpdate(id, fields): only the named fields change
ApplyWrite(L, w) ==
    [L EXCEPT ![w.id[1]][w.id[2]] =
        [@ EXCEPT !.status = IF w.setStatus THEN w.status ELSE @,
                  !.points = IF w.setPoints THEN w.points ELSE @]]

RECURSIVE ApplyWrites(_, _)
ApplyWrites(L, ws) ==
    IF ws = << >> THEN L ELSE ApplyWrites(ApplyWrite(L, Head(ws)), Tail(ws))

NoInc == [c \in Cust |-> 0]
NoTierSet == [c \in Cust |-> "keep"]

EmptyPlan ==
    [ledgerWrites |-> << >>, ledgerCreates |-> << >>, txns |-> << >>,
     incs |-> NoInc, coinIncs |-> NoInc, tierSets |-> NoTierSet]

OfCustomer(docs, c) == SelectSeq(docs, LAMBDA d : d.customer_id = c)

\* transaction.commit(): every buffered write reaches the collections at once
Commit(plan) ==
    /\ ledger' =
         LET written == ApplyWrites(ledger, plan.ledgerWrites) IN
         [c \in Cust |->
            LET created == OfCustomer(plan.ledgerCreates, c) IN
            written[c] \o
            [k \in 1..Len(created) |->
                [created[k] EXCEPT
                    !.transaction_id = Len(transactions[c]) + @]]]
    /\ transactions' =
         [c \in Cust |-> transactions[c] \o OfCustomer(plan.txns, c)]
    /\ customers' =
         [c \in Cust |->
            [total_points |-> customers[c].total_points + plan.incs[c],
             coins |-> customers[c].coins + plan.coinIncs[c],
             tier |-> IF plan.tierSets[c] = "keep" THEN customers[c].tier
                      ELSE plan.tierSets[c]]]

\* transaction.abort(): nothing of the unit of work is persisted
Abort == UNCHANGED <<ledger, transactions, customers>>

----------------------------------------------------------------------------
\* redeemPointsFIFO

\* the find without the expiry bound
ValidPointIdsAnyExpiry(L, customerId, now) ==
    { id \in LedgerIds(L) :
        /\ Entry(L, id).customer_id = customerId
        /\ Entry(L, id).status = "active" }

\* the LoyaltyPoints.find filter: customer's active entries not yet expired
ValidPointIds(L, customerId, now) ==
    { id \in LedgerIds(L) :
        /\ Entry(L, id).customer_id = customerId
        /\ Entry(L, id).expiryDate >= now
        /\ Entry(L, id).status = "active" }

\* .sort({ earnedAt: 1 }): any order of the ids that is ascending in earnedAt
SortedByEarnedAt(L, S) ==
    { o \in Orders(S) :
        \A i, j \in 1..Cardinality(S) :
            i < j => Entry(L, o[i]).earnedAt <= Entry(L, o[j]).earnedAt }

\* the documents as read by a find, in the order o
ReadEntries(L, o) ==
    [k \in 1..Len(o) |->
        [id |-> o[k], customer_id |-> Entry(L, o[k]).customer_id,
         points |-> Entry(L, o[k]).points,
         earnedAt |-> Entry(L, o[k]).earnedAt,
         expiryDate |-> Entry(L, o[k]).expiryDate,
         transaction_id |-> Entry(L, o[k]).transaction_id]]

totalAvailablePoints(validPoints) ==
    SumSeq([k \in 1..Len(validPoints) |-> validPoints[k].points])

UsedEntry(entry, used, full) ==
    [loyalty_point_id |-> entry.id, original_points |-> entry.points,
     points_used |-> used, fully_redeemed |-> full,
     expiryDate |-> entry.expiryDate, earnedAt |-> entry.earnedAt]

\* the loop with a strict comparison: an entry equal to the remainder is
\* decremented instead of redeemed
RECURSIVE FifoLoopStrict(_, _, _, _, _)
FifoLoopStrict(validPoints, i, remainingPoints, failUpd, acc) ==
    IF i > Len(validPoints) \/ remainingPoints <= 0 THEN acc
    ELSE
      LET entry == validPoints[i] IN
      IF failUpd = Len(acc.writes) + 1 THEN [acc EXCEPT !.failed = TRUE]
      ELSE IF remainingPoints > entry.points THEN
        FifoLoopStrict(validPoints, i + 1, remainingPoints - entry.points,
                       failUpd,
                 [redeemed |-> acc.redeemed + entry.points,
                  used |-> Append(acc.used,
                                  UsedEntry(entry, entry.points, TRUE)),
                  writes |-> Append(acc.writes, RedeemWrite(entry.id)),
                  failed |-> FALSE])
      ELSE
        FifoLoopStrict(validPoints, i + 1, 0, failUpd,
                 [redeemed |-> acc.redeemed + remainingPoints,
                  used |-> Append(acc.used,
                                  UsedEntry(entry, remainingPoints, FALSE)),
                  writes |-> Append(acc.writes,
                                    PointsWrite(entry.id,
                                        entry.points - remainingPoints)),
                  failed |-> FALSE])

\* the for loop over validPoints; failUpd > 0 makes the failUpd-th
\* findByIdAndUpdate throw
RECURSIVE FifoLoop(_, _, _, _, _)
FifoLoop(validPoints, i, remainingPoints, failUpd, acc) ==
    IF i > Len(validPoints) \/ remainingPoints <= 0 THEN acc
    ELSE
      LET entry == validPoints[i] IN
      IF failUpd = Len(acc.writes) + 1 THEN [acc EXCEPT !.failed = TRUE]
      ELSE IF remainingPoints >= entry.points THEN
        FifoLoop(validPoints, i + 1, remainingPoints - entry.points, failUpd,
                 [redeemed |-> acc.redeemed + entry.points,
                  used |-> Append(acc.used,
                                  UsedEntry(entry, entry.points, TRUE)),
                  writes |-> Append(acc.writes, RedeemWrite(entry.id)),
                  failed |-> FALSE])
      ELSE
        FifoLoop(validPoints, i + 1, 0, failUpd,
                 [redeemed |-> acc.redeemed + remainingPoints,
                  used |-> Append(acc.used,
                                  UsedEntry(entry, remainingPoints, FALSE)),
                  writes |-> Append(acc.writes,
                                    PointsWrite(entry.id,
                                        entry.points - remainingPoints)),
                  failed |-> FALSE])

\* redeemPointsFIFO without the comparison of the total with the request
redeemPointsFIFOUnchecked(validPoints, pointsToRedeem, failAt) ==
    IF failAt = 1 THEN
      [success |-> FALSE, availablePoints |-> 0, redeemedPoints |-> 0,
       usedLoyaltyPoints |-> << >>, writes |-> << >>, error |-> TRUE]
    ELSE
      LET r == FifoLoop(validPoints, 1, pointsToRedeem,
                        IF failAt = 0 THEN 0 ELSE failAt - 1,
                        [redeemed |-> 0, used |-> << >>, writes |-> << >>,
                         failed |-> FALSE])
      IN IF r.failed THEN
           [success |-> FALSE, availablePoints |-> 0, redeemedPoints |-> 0,
            usedLoyaltyPoints |-> << >>, writes |-> r.writes, error |-> TRUE]
         ELSE
           [success |-> TRUE,
            availablePoints |-> totalAvailablePoints(validPoints),
            redeemedPoints |-> r.redeemed, usedLoyaltyPoints |-> r.used,
            writes |-> r.writes, error |-> FALSE]

\* failAt = 0: no error; 1: the find throws; k + 1: the k-th update throws
redeemPointsFIFO(validPoints, pointsToRedeem, failAt) ==
    IF failAt = 1 THEN
      [success |-> FALSE, availablePoints |-> 0, redeemedPoints |-> 0,
       usedLoyaltyPoints |-> << >>, writes |-> << >>, error |-> TRUE]
    ELSE IF totalAvailablePoints(validPoints) < pointsToRedeem THEN
      [success |-> FALSE,
       availablePoints |-> totalAvailablePoints(validPoints),
       redeemedPoints |-> 0, usedLoyaltyPoints |-> << >>, writes |-> << >>,
       error |-> FALSE]
    ELSE
      LET r == FifoLoop(validPoints, 1, pointsToRedeem,
                        IF failAt = 0 THEN 0 ELSE failAt - 1,
                        [redeemed |-> 0, used |-> << >>, writes |-> << >>,
                         failed |-> FALSE])
      IN IF r.failed THEN
           [success |-> FALSE, availablePoints |-> 0, redeemedPoints |-> 0,
            usedLoyaltyPoints |-> << >>, writes |-> r.writes, error |-> TRUE]
         ELSE
           [success |-> TRUE,
            availablePoints |-> totalAvailablePoints(validPoints),
            redeemedPoints |-> r.redeemed, usedLoyaltyPoints |-> r.used,
            writes |-> r.writes, error |-> FALSE]

----------------------------------------------------------------------------
\* Collaborators of the manual adjustment service

\* PointsExpirationRules.calculateExpiryDate: a date after the grant
calculateExpiryDate(tier, now) == now + ExpiryDays

\* tierController.checkAndUpgradeTier: promotes the customer to the highest
\* tier whose threshold the balance reaches, when that tier is above the
\* current one; "keep" when there is none
checkAndUpgradeTier(tier, total_points) ==
    LET eligible ==
          { t \in tiers :
              /\ points_required[t] <= total_points
              /\ (tier = NoTier \/ hierarchy_level[t] > hierarchy_level[tier]) }
    IN IF eligible = {} THEN "keep"
       ELSE CHOOSE t \in eligible :
              \A u \in eligible : hierarchy_level[u] <= hierarchy_level[t]

\* sets of at most MaxFail injected errors among the steps S
RECURSIVE UpTo(_, _)
UpTo(S, n) ==
    IF n = 0 THEN { {} }
    ELSE UpTo(S, n - 1) \cup { F \cup {x} : F \in UpTo(S, n - 1), x \in S }

Failures(S) == UpTo(S, MaxFail)

----------------------------------------------------------------------------
\* getManualPointsForCriteria

FixedEntry(ps) ==
    LET fixed == { i \in 1..Len(ps) : ps[i].pointType = "fixed" }
    IN IF fixed # {}
       THEN ps[CHOOSE i \in fixed : \A j \in fixed : i <= j]
       ELSE ps[1]

getManualPointsForCriteria(ps) ==
    IF Len(ps) = 0 THEN [success |-> FALSE, points |-> 0]
    ELSE IF ~FixedEntry(ps).finite \/ FixedEntry(ps).pointRate <= 0
         THEN [success |-> FALSE, points |-> 0]
         ELSE [success |-> TRUE, points |-> FixedEntry(ps).pointRate]

----------------------------------------------------------------------------
\* addPointsIndividual

AddPlan(c, pointsToAward, requested_by, F) ==
    [EmptyPlan EXCEPT
        !.txns = << ManualTransaction(c, "earn", pointsToAward, clock,
                                      requested_by) >>,
        !.incs = [NoInc EXCEPT ![c] = pointsToAward],
        !.coinIncs = [NoInc EXCEPT ![c] = pointsToAward],
        !.ledgerCreates =
            IF "ledger" \in F THEN << >>
            ELSE << NewLoyaltyPoints(c, pointsToAward, clock,
                        calculateExpiryDate(customers[c].tier, clock), 1) >>,
        !.tierSets =
            IF "tier" \in F THEN NoTierSet
            ELSE [NoTierSet EXCEPT ![c] =
                    checkAndUpgradeTier(customers[c].tier,
                        customers[c].total_points + pointsToAward)]]

\* the errors that a grant caught and logged
GrantError(c, kind) == [kind |-> kind, cust |-> c, idx |-> 0, step |-> 0]

AddResponse(customer_id, point_criteria, code, points, F) ==
    [Response("addPointsIndividual", customer_id, code, points, 0, 0, << >>,
              {})
       EXCEPT !.point_criteria = point_criteria,
              !.logged = { GrantError(customer_id, kind) : kind \in F }]

\* a grant that takes the first point criteria when the named one does not
\* resolve
addPointsIndividualAnyCriteria(customer_id, point_criteria, requested_by, F) ==
    /\ TotalTxns < MaxTxns
    /\ IF customer_id \notin Cust THEN
         /\ Abort
         /\ resp' = AddResponse(customer_id, point_criteria, 404, 0, {})
       ELSE IF "fatal" \in F THEN
         /\ Abort
         /\ resp' = AddResponse(customer_id, point_criteria, 500, 0, F)
       ELSE
         LET criteriaId == IF point_criteria \in PointCriteriaIds
                           THEN point_criteria ELSE "pcOne"
             pointsToAward ==
               getManualPointsForCriteria(pointSystem[criteriaId]).points
         IN /\ Commit(AddPlan(customer_id, pointsToAward, requested_by, F))
            /\ resp' = AddResponse(customer_id, point_criteria, 201,
                                   pointsToAward, F)
    /\ UNCHANGED <<clock, criteria, priority, inflight>>

addPointsIndividual(customer_id, point_criteria, requested_by, F) ==
    /\ TotalTxns < MaxTxns
    /\ IF customer_id \notin Cust THEN
         /\ Abort
         /\ resp' = AddResponse(customer_id, point_criteria, 404, 0, {})
       ELSE IF point_criteria \notin PointCriteriaIds THEN
         /\ Abort
         /\ resp' = AddResponse(customer_id, point_criteria, 404, 0, {})
       ELSE IF ~getManualPointsForCriteria(pointSystem[point_criteria]).success
       THEN
         /\ Abort
         /\ resp' = AddResponse(customer_id, point_criteria, 400, 0, {})
       ELSE IF "fatal" \in F THEN
         /\ Abort
         /\ resp' = AddResponse(customer_id, point_criteria, 500, 0, F)
       ELSE
         LET pointsToAward ==
               getManualPointsForCriteria(pointSystem[point_criteria]).points
         IN /\ Commit(AddPlan(customer_id, pointsToAward, requested_by, F))
            /\ resp' = AddResponse(customer_id, point_criteria, 201,
                                   pointsToAward, F)
    /\ UNCHANGED <<clock, criteria, priority, inflight>>

----------------------------------------------------------------------------
\* addPointsBulk

\* a row of the uploaded sheet: hasColumns tells whether every column of
\* REQUIRED_BULK_COLUMNS is present, finite whether Number(points) is finite;
\* the strings are the normalized values ("" when empty)
Row(hasColumns, customer_id, points, finite, point_criteria, note) ==
    [hasColumns |-> hasColumns, customer_id |-> customer_id,
     points |-> points, finite |-> finite,
     point_criteria |-> point_criteria, note |-> note]

\* the check that rejects the row, in the order of the loop; "none" when
\* the row is enriched
RowError(rawRow) ==
    IF ~rawRow.hasColumns THEN "missing_columns"
    ELSE IF rawRow.customer_id = "" THEN "customer_id_required"
    ELSE IF ~rawRow.finite \/ rawRow.points <= 0 THEN "points_positive"
    ELSE IF rawRow.point_criteria = "" THEN "point_criteria_required"
    ELSE IF rawRow.note = "" THEN "note_required"
    ELSE IF rawRow.customer_id \notin Cust THEN "customer_not_found"
    ELSE IF rawRow.point_criteria \notin PointCriteriaIds
         THEN "criteria_not_found"
    ELSE "none"

\* a validation that reports the first rejected row only
validationErrorsFirstOnly(rows) ==
    LET rejected == { j \in 1..Len(rows) : RowError(rows[j]) # "none" }
    IN { [rowNumber |-> (k - 1) + 2, error |-> RowError(rows[k])] :
           k \in { j \in rejected : \A i \in rejected : j <= i } }

\* validationErrors: one message per rejected row, rowNumber = index + 2
\* for the 0-based index of the row
validationErrors(rows) ==
    { [rowNumber |-> (k - 1) + 2, error |-> RowError(rows[k])] :
        k \in { j \in 1..Len(rows) : RowError(rows[j]) # "none" } }

\* injected errors of one upload
BulkError(kind, i) == [kind |-> kind, cust |-> "none", idx |-> i, step |-> 0]

\* the loop over enrichedRows: transaction, balance and ledger entry of each
\* row; the error of a ledger creation is logged and the loop goes on
RECURSIVE GrantRows(_, _, _, _)
GrantRows(plan, enrichedRows, i, F) ==
    IF i > Len(enrichedRows) THEN plan
    ELSE
      LET entry == enrichedRows[i]
          c == entry.customer_id
          txns == Append(plan.txns,
                         ManualTransaction(c, "earn", entry.points, clock,
                                           DefaultRequestedBy))
      IN GrantRows(
           [plan EXCEPT
              !.txns = txns,
              !.incs[c] = @ + entry.points,
              !.coinIncs[c] = @ + entry.points,
              !.ledgerCreates =
                 IF BulkError("ledger", i) \in F THEN @
                 ELSE Append(@, NewLoyaltyPoints(c, entry.points, clock,
                                  calculateExpiryDate(customers[c].tier,
                                                      clock),
                                  Len(OfCustomer(txns, c))))],
           enrichedRows, i + 1, F)

\* the loop of checkAndUpgradeTier calls inside one try: the first call that
\* throws ends the loop
RECURSIVE TierChecks(_, _, _, _)
TierChecks(plan, enrichedRows, i, F) ==
    IF i > Len(enrichedRows) \/ BulkError("tier", i) \in F THEN plan
    ELSE
      LET c == enrichedRows[i].customer_id
          tier == IF plan.tierSets[c] = "keep" THEN customers[c].tier
                  ELSE plan.tierSets[c]
          upgraded == checkAndUpgradeTier(tier,
                          customers[c].total_points + plan.incs[c])
      IN TierChecks(
           IF upgraded = "keep" THEN plan
           ELSE [plan EXCEPT !.tierSets[c] = upgraded],
           enrichedRows, i + 1, F)

BulkPlan(enrichedRows, F) ==
    TierChecks(GrantRows(EmptyPlan, enrichedRows, 1, F), enrichedRows, 1, F)

BulkResponse(code, rows, errors, F) ==
    [Response("addPointsBulk", "none", code, Len(rows), 0, 0, << >>, errors)
       EXCEPT !.logged = F, !.rows = rows]

\* upload: "ok", or the reason for which the request is rejected before the
\* rows are looked at.  A read of the validation loop that throws leaves the
\* request without an answer (code 0).
addPointsBulk(upload, rows, F) ==
    /\ IF upload # "ok" \/ rows = << >> THEN
         /\ Abort
         /\ resp' = BulkResponse(400, rows, {}, {})
       ELSE IF BulkError("validation", 0) \in F THEN
         /\ Abort
         /\ resp' = BulkResponse(0, rows, {}, F)
       ELSE IF validationErrors(rows) # {} THEN
         /\ Abort
         /\ resp' = BulkResponse(400, rows, validationErrors(rows), {})
       ELSE IF BulkError("fatal", 0) \in F THEN
         /\ Abort
         /\ resp' = BulkResponse(500, rows, {}, F)
       ELSE
         /\ TotalTxns + Len(rows) <= MaxTxns
         /\ Commit(BulkPlan(rows, F))
         /\ resp' = BulkResponse(200, rows, {}, F)
    /\ UNCHANGED <<clock, criteria, priority, inflight>>

----------------------------------------------------------------------------
\* reducePoints

\* a reducePoints that debits the coins as well
ReducePlanDebitsCoins(c, numericPoints, fifoResult) ==
    [EmptyPlan EXCEPT
        !.ledgerWrites = fifoResult.writes,
        !.txns = << ManualTransaction(c, "redeem", 0 - numericPoints, clock,
                                      DefaultRequestedBy) >>,
        !.incs = [NoInc EXCEPT ![c] = 0 - numericPoints],
        !.coinIncs = [NoInc EXCEPT ![c] = 0 - numericPoints]]

ReducePlan(c, numericPoints, fifoResult) ==
    [EmptyPlan EXCEPT
        !.ledgerWrites = fifoResult.writes,
        !.txns = << ManualTransaction(c, "redeem", 0 - numericPoints, clock,
                                      DefaultRequestedBy) >>,
        !.incs = [NoInc EXCEPT ![c] = 0 - numericPoints]]

\* the error logged by the catch of redeemPointsFIFO: the find (step 1) or
\* the (step - 1)-th update threw
FifoError(c, step) == [kind |-> "fifo", cust |-> c, idx |-> 0, step |-> step]

\* the part of reducePoints after the ledger find of redeemPointsFIFO;
\* fatal: an await outside redeemPointsFIFO throws
\* a reducePoints that commits the ledger writes issued before
\* redeemPointsFIFO failed
ReduceFinishKeepsWrites(customer_id, numericPoints, validPoints, failAt, fatal) ==
    LET fifoResult == redeemPointsFIFO(validPoints, numericPoints, failAt)
    IN IF ~fifoResult.success THEN
         /\ Commit([EmptyPlan EXCEPT !.ledgerWrites = fifoResult.writes])
         /\ resp' = [Response("reducePoints", customer_id, 400,
                              numericPoints, fifoResult.availablePoints, 0,
                              << >>, {})
                     EXCEPT !.logged =
                       IF fifoResult.error
                       THEN {FifoError(customer_id, failAt)} ELSE {}]
       ELSE IF fatal THEN
         /\ Abort
         /\ resp' = Response("reducePoints", customer_id, 500, numericPoints,
                             0, 0, << >>, {})
       ELSE
         /\ Commit(ReducePlan(customer_id, numericPoints, fifoResult))
         /\ resp' = Response("reducePoints", customer_id, 200, numericPoints,
                             fifoResult.availablePoints,
                             fifoResult.redeemedPoints,
                             fifoResult.usedLoyaltyPoints, {})

ReduceFinish(customer_id, numericPoints, validPoints, failAt, fatal) ==
    LET fifoResult == redeemPointsFIFO(validPoints, numericPoints, failAt)
    IN IF ~fifoResult.success THEN
         /\ Abort
         /\ resp' = [Response("reducePoints", customer_id, 400,
                              numericPoints, fifoResult.availablePoints, 0,
                              << >>, {})
                     EXCEPT !.logged =
                       IF fifoResult.error
                       THEN {FifoError(customer_id, failAt)} ELSE {}]
       ELSE IF fatal THEN
         /\ Abort
         /\ resp' = Response("reducePoints", customer_id, 500, numericPoints,
                             0, 0, << >>, {})
       ELSE
         /\ Commit(ReducePlan(customer_id, numericPoints, fifoResult))
         /\ resp' = Response("reducePoints", customer_id, 200, numericPoints,
                             fifoResult.availablePoints,
                             fifoResult.redeemedPoints,
                             fifoResult.usedLoyaltyPoints, {})

\* fatal: 0 no error, 1 Customer.findById throws, 2 an await after
\* redeemPointsFIFO throws
reducePoints(customer_id, points, o, failAt, fatal) ==
    /\ TotalTxns < MaxTxns
    /\ IF fatal = 1 THEN
         /\ Abort
         /\ resp' = Response("reducePoints", customer_id, 500, points,
                             0, 0, << >>, {})
       ELSE IF customer_id \notin Cust THEN
         /\ Abort
         /\ resp' = Response("reducePoints", customer_id, 404, points,
                             0, 0, << >>, {})
       ELSE IF points <= 0 THEN
         /\ Abort
         /\ resp' = Response("reducePoints", customer_id, 400, points,
                             0, 0, << >>, {})
       ELSE
         ReduceFinish(customer_id, points, ReadEntries(ledger, o),
                      failAt, fatal = 2)
    /\ UNCHANGED <<clock, criteria, priority, inflight>>

----------------------------------------------------------------------------
\* checkTierRetentionEligibility

NoCriteria ==
    [exists |-> FALSE, evaluation_period_days |-> 0,
     consecutive_periods_required |-> 0, net_earning_required |-> 0]

Criteria(days, periods, earning) ==
    [exists |-> TRUE, evaluation_period_days |-> days,
     consecutive_periods_required |-> periods,
     net_earning_required |-> earning]

\* sum of the completed earn transactions of c dated in [from, to)
PeriodNetEarnings(T, c, from, to) ==
    SumSeq([k \in 1..Len(T[c]) |->
              IF /\ T[c][k].transaction_type = "earn"
                 /\ T[c][k].status = "completed"
                 /\ T[c][k].transaction_date >= from
                 /\ T[c][k].transaction_date < to
              THEN T[c][k].points ELSE 0])

\* periods that share their first day with the period before
PeriodDatesOverlapping(crit, now, periodIndex) ==
    LET periodEndDate == now - periodIndex * crit.evaluation_period_days
    IN [periodStartDate |-> periodEndDate - crit.evaluation_period_days - 1,
        periodEndDate |-> periodEndDate]

\* periodStartDate and periodEndDate of the period periodIndex (0 is the most
\* recent): setDate(getDate() - n) moves a date by n days
PeriodDates(crit, now, periodIndex) ==
    LET periodEndDate == now - periodIndex * crit.evaluation_period_days
    IN [periodStartDate |-> periodEndDate - crit.evaluation_period_days,
        periodEndDate |-> periodEndDate]

\* a loop that asks for at least one period with the earnings required
RECURSIVE PeriodsLoopAtLeastOne(_, _, _, _, _)
PeriodsLoopAtLeastOne(T, c, crit, now, periodIndex) ==
    IF periodIndex >= crit.consecutive_periods_required
    THEN [meets |-> periodIndex > 0, reads |-> periodIndex]
    ELSE
      LET period == PeriodDates(crit, now, periodIndex)
      IN IF PeriodNetEarnings(T, c, period.periodStartDate,
                              period.periodEndDate)
              >= crit.net_earning_required
         THEN PeriodsLoopAtLeastOne(T, c, crit, now, periodIndex + 1)
         ELSE [meets |-> FALSE, reads |-> periodIndex + 1]

\* the for loop over the periods, most recent first: whether every period
\* had the earnings required, and the number of Transaction.find calls made
RECURSIVE PeriodsLoop(_, _, _, _, _)
PeriodsLoop(T, c, crit, now, periodIndex) ==
    IF periodIndex >= crit.consecutive_periods_required
    THEN [meets |-> periodIndex >= crit.consecutive_periods_required,
          reads |-> periodIndex]
    ELSE
      LET period == PeriodDates(crit, now, periodIndex)
      IN IF PeriodNetEarnings(T, c, period.periodStartDate,
                              period.periodEndDate)
              >= crit.net_earning_required
         THEN PeriodsLoop(T, c, crit, now, periodIndex + 1)
         ELSE [meets |-> FALSE, reads |-> periodIndex + 1]

\* readError: a read of the evaluation throws; a missing tier makes the
\* access to tier._id throw
\* an evaluator whose branch without criteria retains every customer with a
\* balance of at least zero
checkTierRetentionEligibilityLenient(T, c, total_points, tier, now, readError) ==
    IF tier = NoTier \/ readError THEN TRUE
    ELSE IF ~criteria[tier].exists
         THEN total_points >= 0
         ELSE IF total_points >= 0
              THEN PeriodsLoop(T, c, criteria[tier], now, 0).meets
              ELSE TRUE

\* an evaluator that answers DOWNGRADE when a read throws
checkTierRetentionEligibilityFailClosed(T, c, total_points, tier, now, readError) ==
    IF tier = NoTier THEN TRUE
    ELSE IF readError THEN FALSE
    ELSE IF ~criteria[tier].exists
         THEN total_points >= points_required[tier]
         ELSE IF total_points >= 0
              THEN PeriodsLoop(T, c, criteria[tier], now, 0).meets
              ELSE TRUE

checkTierRetentionEligibility(T, c, total_points, tier, now, readError) ==
    IF tier = NoTier \/ readError THEN TRUE
    ELSE IF ~criteria[tier].exists
         THEN total_points >= points_required[tier]
         ELSE IF total_points >= 0
              THEN PeriodsLoop(T, c, criteria[tier], now, 0).meets
              ELSE TRUE

----------------------------------------------------------------------------
\* processPointsAndTiers

\* Tier.find({}).sort({ hierarchy_level: -1 })
RECURSIVE Descending(_)
Descending(S) ==
    IF S = {} THEN << >>
    ELSE LET top == CHOOSE t \in S :
                      \A u \in S : hierarchy_level[u] <= hierarchy_level[t]
         IN << top >> \o Descending(S \ {top})

TiersDescending == Descending(tiers)

bronzeTier ==
    IF \E t \in tiers : hierarchy_level[t] = 0
    THEN CHOOSE t \in tiers : hierarchy_level[t] = 0
    ELSE IF tiers # {} THEN TiersDescending[Cardinality(tiers)]
         ELSE NoTier

\* PriorityCustomer.findOne(filter): the first document of the customer that
\* matches, or null
findOnePriority(P, c, activeOnly) ==
    LET m == { i \in 1..Len(P[c]) : activeOnly => P[c][i].is_active }
    IN IF m = {} THEN NoRecord
       ELSE P[c][CHOOSE i \in m : \A k \in m : i <= k]

\* PriorityCustomer.findOne({ customer_id, is_active: true }).populate
priorityTier(c) ==
    LET r == findOnePriority(priority, c, TRUE)
    IN IF r.exists /\ r.is_active /\ r.tier_id \in tiers
       THEN r.tier_id ELSE NoTier

\* injected errors of one run
EntryError(id, step) ==
    [kind |-> "entry", cust |-> id[1], idx |-> id[2], step |-> step]
CustomerError(c, step) ==
    [kind |-> "customer", cust |-> c, idx |-> 0, step |-> step]
ReadError(c, call) ==
    [kind |-> "read", cust |-> c, idx |-> 0, step |-> call]
FatalError == [kind |-> "fatal", cust |-> "none", idx |-> 0, step |-> 0]

\* the first step at which the errors F make the processing of (kind, c, i)
\* throw; 0 when none does
ErrorStep(F, kind, c, i) ==
    LET hits == { p \in F : p.kind = kind /\ p.cust = c /\ p.idx = i }
    IN IF hits = {} THEN 0
       ELSE (CHOOSE p \in hits : \A q \in hits : p.step <= q.step).step

\* the find of the expired points: active entries with expiryDate < now
ExpiredPointIds(L, now) ==
    { id \in LedgerIds(L) :
        Entry(L, id).status = "active" /\ Entry(L, id).expiryDate < now }

\* the ids in the order the find returns them
RECURSIVE IdSeq(_)
IdSeq(S) ==
    IF S = {} THEN << >>
    ELSE LET id == CHOOSE x \in S :
                     \A y \in S : x[1] # y[1] \/ x[2] <= y[2]
         IN << id >> \o IdSeq(S \ {id})

\* the pass without the update of the status
ExpireEntryKeepsStatus(plan, pointRecord, now, step) ==
    [plan EXCEPT
        !.txns =
            IF step \in {1, 2} THEN @
            ELSE Append(@, NewTransaction(pointRecord.customer_id, "expire",
                               0 - pointRecord.points, now,
                               pointRecord.transaction_id, "none", "none")),
        !.incs =
            IF step \in {1, 2, 3} THEN @
            ELSE [@ EXCEPT ![pointRecord.customer_id] =
                               @ - pointRecord.points]]

\* the writes of one pass of the loop over expiredPoints; the error step:
\* 1 the ledger update throws, 2 Transaction.create, 3 the customer update
ExpireEntry(plan, pointRecord, now, step) ==
    [plan EXCEPT
        !.ledgerWrites =
            IF step = 1 THEN @
            ELSE Append(@, StatusWrite(pointRecord.id, "expired")),
        !.txns =
            IF step \in {1, 2} THEN @
            ELSE Append(@, NewTransaction(pointRecord.customer_id, "expire",
                               0 - pointRecord.points, now,
                               pointRecord.transaction_id, "none", "none")),
        !.incs =
            IF step \in {1, 2, 3} THEN @
            ELSE [@ EXCEPT ![pointRecord.customer_id] =
                               @ - pointRecord.points]]

\* the loop leaving at the first entry whose pass throws
RECURSIVE ExpireLoopStopsAtError(_, _, _, _, _)
ExpireLoopStopsAtError(plan, expiredPoints, i, now, F) ==
    IF i > Len(expiredPoints) THEN plan
    ELSE
      LET step == ErrorStep(F, "entry", expiredPoints[i].id[1],
                            expiredPoints[i].id[2])
          next == ExpireEntry(plan, expiredPoints[i], now, step)
      IN IF step # 0 THEN next
         ELSE ExpireLoopStopsAtError(next, expiredPoints, i + 1, now, F)

RECURSIVE ExpireLoop(_, _, _, _, _)
ExpireLoop(plan, expiredPoints, i, now, F) ==
    IF i > Len(expiredPoints) THEN plan
    ELSE ExpireLoop(
           ExpireEntry(plan, expiredPoints[i], now,
                       ErrorStep(F, "entry", expiredPoints[i].id[1],
                                 expiredPoints[i].id[2])),
           expiredPoints, i + 1, now, F)

\* the scan taking the next lower tier without evaluating it
RECURSIVE DowngradeScanNextLower(_, _, _, _, _, _, _, _)
DowngradeScanNextLower(T, c, total_points, currentTier, i, now, call, failCall) ==
    IF i > Cardinality(tiers) THEN bronzeTier
    ELSE
      LET tier == TiersDescending[i] IN
      IF hierarchy_level[tier] < hierarchy_level[currentTier] THEN tier
      ELSE DowngradeScanNextLower(T, c, total_points, currentTier, i + 1,
                                  now, call, failCall)

\* the target without the scan: the base tier
DowngradeScanToBase(T, c, total_points, currentTier, i, now, call, failCall) ==
    bronzeTier

\* the scan for the highest lower tier the customer qualifies for; call is
\* the number of the retention evaluation, failCall the one whose read throws
RECURSIVE DowngradeScan(_, _, _, _, _, _, _, _)
DowngradeScan(T, c, total_points, currentTier, i, now, call, failCall) ==
    IF i > Cardinality(tiers) THEN bronzeTier
    ELSE
      LET tier == TiersDescending[i] IN
      IF tier = currentTier THEN
        DowngradeScan(T, c, total_points, currentTier, i + 1, now, call,
                      failCall)
      ELSE IF hierarchy_level[tier] < hierarchy_level[currentTier] THEN
        IF checkTierRetentionEligibility(T, c, total_points, tier, now,
                                         failCall = call)
        THEN tier
        ELSE DowngradeScan(T, c, total_points, currentTier, i + 1, now,
                           call + 1, failCall)
      ELSE
        DowngradeScan(T, c, total_points, currentTier, i + 1, now, call,
                      failCall)

\* the scanned tier taken as it is
DowngradeTargetUnclamped(scanned, prio) == scanned

\* the downgrade target after the priority clamp
DowngradeTarget(scanned, prio) ==
    IF prio # NoTier /\ hierarchy_level[scanned] < hierarchy_level[prio]
    THEN prio ELSE scanned

TierTransaction(c, type, now, prev, new) ==
    NewTransaction(c, type, 0, now, 0, prev, new)

\* the pass without the continue after the protection upgrade
ProcessCustomerEvaluatesAfterUpgrade(T, c, total_points, now, step, failCall) ==
    LET currentTier == customers[c].tier
        prio == priorityTier(c)
        nothing == [tier |-> "keep", txns |-> << >>, evaluated |-> TRUE]
    IN
    IF step = 1 THEN [nothing EXCEPT !.evaluated = FALSE]
    ELSE IF /\ prio # NoTier
            /\ currentTier # NoTier
            /\ hierarchy_level[currentTier] < hierarchy_level[prio]
    THEN [tier |-> IF checkTierRetentionEligibility(T, c, total_points, prio,
                                                    clock, failCall = 1)
                   THEN prio
                   ELSE DowngradeTarget(
                          DowngradeScan(T, c, total_points, prio, 1, clock, 2,
                                        failCall),
                          prio),
          txns |-> IF step = 2 THEN << >>
                   ELSE << TierTransaction(c, "tier_protection_adjustment",
                                           now, currentTier, prio) >>,
          evaluated |-> TRUE]
    ELSE IF checkTierRetentionEligibility(T, c, total_points, currentTier,
                                          clock, failCall = 1)
    THEN nothing
    ELSE
      LET newTier ==
            DowngradeTarget(
              DowngradeScan(T, c, total_points, currentTier, 1, clock, 2,
                            failCall),
              prio)
      IN IF hierarchy_level[newTier] < hierarchy_level[currentTier]
         THEN IF newTier = currentTier THEN nothing
              ELSE [tier |-> newTier,
                    txns |-> IF step = 2 THEN << >>
                             ELSE << TierTransaction(c, "tier_downgrade", now,
                                                     currentTier, newTier) >>,
                    evaluated |-> TRUE]
         ELSE nothing

\* a pass that puts a customer without tier on the base tier
ProcessCustomerAssignsBase(T, c, total_points, now, step, failCall) ==
    LET currentTier == customers[c].tier
        prio == priorityTier(c)
        nothing == [tier |-> "keep", txns |-> << >>, evaluated |-> TRUE]
    IN
    IF step = 1 THEN [nothing EXCEPT !.evaluated = FALSE]
    ELSE IF currentTier = NoTier
    THEN [tier |-> bronzeTier,
          txns |-> << TierTransaction(c, "tier_downgrade", now, NoTier,
                                      bronzeTier) >>,
          evaluated |-> TRUE]
    ELSE IF /\ prio # NoTier
            /\ currentTier # NoTier
            /\ hierarchy_level[currentTier] < hierarchy_level[prio]
    THEN [tier |-> prio,
          txns |-> IF step = 2 THEN << >>
                   ELSE << TierTransaction(c, "tier_protection_adjustment",
                                           now, currentTier, prio) >>,
          evaluated |-> FALSE]
    ELSE IF checkTierRetentionEligibility(T, c, total_points, currentTier,
                                          clock, failCall = 1)
    THEN nothing
    ELSE
      LET newTier ==
            DowngradeTarget(
              DowngradeScan(T, c, total_points, currentTier, 1, clock, 2,
                            failCall),
              prio)
      IN IF hierarchy_level[newTier] < hierarchy_level[currentTier]
         THEN IF newTier = currentTier THEN nothing
              ELSE [tier |-> newTier,
                    txns |-> IF step = 2 THEN << >>
                             ELSE << TierTransaction(c, "tier_downgrade", now,
                                                     currentTier, newTier) >>,
                    evaluated |-> TRUE]
         ELSE nothing

\* the pass that writes the clamped target whether or not it is lower
ProcessCustomerWritesTarget(T, c, total_points, now, step, failCall) ==
    LET currentTier == customers[c].tier
        prio == priorityTier(c)
        nothing == [tier |-> "keep", txns |-> << >>, evaluated |-> TRUE]
    IN
    IF step = 1 THEN [nothing EXCEPT !.evaluated = FALSE]
    ELSE IF /\ prio # NoTier
            /\ currentTier # NoTier
            /\ hierarchy_level[currentTier] < hierarchy_level[prio]
    THEN [tier |-> prio,
          txns |-> IF step = 2 THEN << >>
                   ELSE << TierTransaction(c, "tier_protection_adjustment",
                                           now, currentTier, prio) >>,
          evaluated |-> FALSE]
    ELSE IF checkTierRetentionEligibility(T, c, total_points, currentTier,
                                          clock, failCall = 1)
    THEN nothing
    ELSE
      LET newTier ==
            DowngradeTarget(
              DowngradeScan(T, c, total_points, currentTier, 1, clock, 2,
                            failCall),
              prio)
      IN [tier |-> newTier,
          txns |-> IF step = 2 THEN << >>
                   ELSE << TierTransaction(c, "tier_downgrade", now,
                                           currentTier, newTier) >>,
          evaluated |-> TRUE]

\* (the retention evaluator reads the time itself, the transactions carry the
\* time the job started)
\* one pass of the loop over customersToCheck: the tier to set ("keep" for
\* none) and the transactions created.  step: 1 the pass throws before its
\* first write, 2 Transaction.create throws after the customer update
ProcessCustomer(T, c, total_points, now, step, failCall) ==
    LET currentTier == customers[c].tier
        prio == priorityTier(c)
        nothing == [tier |-> "keep", txns |-> << >>, evaluated |-> TRUE]
    IN
    IF step = 1 THEN [nothing EXCEPT !.evaluated = FALSE]
    ELSE IF /\ prio # NoTier
            /\ currentTier # NoTier
            /\ hierarchy_level[currentTier] < hierarchy_level[prio]
    THEN [tier |-> prio,
          txns |-> IF step = 2 THEN << >>
                   ELSE << TierTransaction(c, "tier_protection_adjustment",
                                           now, currentTier, prio) >>,
          evaluated |-> FALSE]
    ELSE IF checkTierRetentionEligibility(T, c, total_points, currentTier,
                                          clock, failCall = 1)
    THEN nothing
    ELSE
      LET newTier ==
            DowngradeTarget(
              DowngradeScan(T, c, total_points, currentTier, 1, clock, 2,
                            failCall),
              prio)
      IN IF hierarchy_level[newTier] < hierarchy_level[currentTier]
         THEN IF newTier = currentTier THEN nothing
              ELSE [tier |-> newTier,
                    txns |-> IF step = 2 THEN << >>
                             ELSE << TierTransaction(c, "tier_downgrade", now,
                                                     currentTier, newTier) >>,
                    evaluated |-> TRUE]
         ELSE nothing

\* Customer.find({ tier: { $ne: bronzeTier._id } })
customersToCheck == { c \in Cust : customers[c].tier # bronzeTier }

RECURSIVE TierLoop(_, _, _, _)
TierLoop(plan, todo, now, F) ==
    IF todo = {} THEN plan
    ELSE
      LET c == CHOOSE x \in todo : TRUE
          r == ProcessCustomer(transactions, c,
                   customers[c].total_points + plan.incs[c], now,
                   ErrorStep(F, "customer", c, 0),
                   ErrorStep(F, "read", c, 0))
      IN TierLoop([plan EXCEPT !.tierSets[c] = r.tier,
                               !.txns = @ \o r.txns],
                  todo \ {c}, now, F)

\* the run with the tier evaluation before the expiry sweep
SweepPlanTiersFirst(expiredPoints, now, F) ==
    ExpireLoop(TierLoop(EmptyPlan, customersToCheck, now, F),
               expiredPoints, 1, now, F)

SweepPlan(expiredPoints, now, F) ==
    TierLoop(ExpireLoop(EmptyPlan, expiredPoints, 1, now, F),
             customersToCheck, now, F)

\* the run without the abort: the writes of the expiry loop are committed
\* although the error is fatal
SweepFinishWithoutAbort(expiredPoints, now, F) ==
    IF bronzeTier = NoTier \/ FatalError \in F THEN
      LET plan == ExpireLoop(EmptyPlan, expiredPoints, 1, now, F) IN
      /\ TotalTxns + Len(plan.txns) <= MaxTxns
      /\ Commit(plan)
      /\ resp' = [Response("processPointsAndTiers", "none", 500,
                           Len(expiredPoints), 0, 0, << >>, {})
                  EXCEPT !.logged = F]
    ELSE
      LET plan == SweepPlan(expiredPoints, now, F) IN
      /\ TotalTxns + Len(plan.txns) <= MaxTxns
      /\ Commit(plan)
      /\ resp' = [Response("processPointsAndTiers", "none", 200,
                           Len(expiredPoints), 0, 0, << >>, {})
                  EXCEPT !.logged = F]

\* the part of processPointsAndTiers after the find of the expired points
SweepFinish(expiredPoints, now, F) ==
    IF bronzeTier = NoTier \/ FatalError \in F THEN
      /\ Abort
      /\ resp' = [Response("processPointsAndTiers", "none", 500,
                           Len(expiredPoints), 0, 0, << >>, {})
                  EXCEPT !.logged = F]
    ELSE
      LET plan == SweepPlan(expiredPoints, now, F) IN
      /\ TotalTxns + Len(plan.txns) <= MaxTxns
      /\ Commit(plan)
      /\ resp' = [Response("processPointsAndTiers", "none", 200,
                           Len(expiredPoints), 0, 0, << >>, {})
                  EXCEPT !.logged = F]

SweepErrors(expiredIds) ==
    { EntryError(id, s) : id \in expiredIds, s \in 1..3 } \cup
    { CustomerError(c, s) : c \in customersToCheck, s \in 1..2 } \cup
    { ReadError(c, k) : c \in customersToCheck,
                        k \in 1..Cardinality(TierIds) } \cup
    { FatalError }

processPointsAndTiers(F) ==
    /\ SweepFinish(ReadEntries(ledger, IdSeq(ExpiredPointIds(ledger, clock))),
                   clock, F)
    /\ UNCHANGED <<clock, criteria, priority, inflight>>

----------------------------------------------------------------------------
\* Passage of time

Tick ==
    /\ clock < MaxTime
    /\ clock' = clock + 1
    /\ UNCHANGED <<customers, ledger, transactions, criteria, priority,
                   resp, inflight>>

----------------------------------------------------------------------------
\* Initial states: empty ledger and log, balances zero

Customers(t1, t2) ==
    ("c1" :> [total_points |-> 0, coins |-> 0, tier |-> t1]) @@
    ("c2" :> [total_points |-> 0, coins |-> 0, tier |-> t2])

EmptyStore ==
    /\ clock = 0
    /\ ledger = [c \in Cust |-> << >>]
    /\ transactions = [c \in Cust |-> << >>]
    /\ resp = NoResp
    /\ inflight = << >>

\* the top tier asks for earnings in each of the last two days, the other
\* tiers have no criteria
TopTierCriteria ==
    ("t0" :> NoCriteria) @@ ("t1" :> NoCriteria) @@
    ("t2" :> Criteria(1, 2, 1))

NoTierCriteria == [t \in TierIds |-> NoCriteria]

Init ==
    /\ EmptyStore
    /\ customers = Customers("t2", "t1")
    /\ criteria = TopTierCriteria
    /\ priority = ("c1" :> <<PriorityRecord("t1", TRUE)>>) @@ ("c2" :> << >>)

\* every tier assignment and every priority record of c1
InitTier ==
    /\ EmptyStore
    /\ customers \in { Customers(t, "t1") : t \in tiers \cup {NoTier} }
    /\ criteria \in { TopTierCriteria, NoTierCriteria }
    /\ priority \in
         { ("c1" :> r) @@ ("c2" :> << >>) :
             r \in { << >>, <<PriorityRecord("t1", TRUE)>>,
                     <<PriorityRecord("t2", TRUE)>>,
                     <<PriorityRecord("t2", FALSE)>> } }

----------------------------------------------------------------------------
\* Requests

MaxRedeem == 3

OrdersFor(c) ==
    IF c \in Cust THEN SortedByEarnedAt(ledger, ValidPointIds(ledger, c, clock))
    ELSE { << >> }

\* each customer with a valid criteria, the errors of a grant, and one
\* request of each rejected kind
AddRequests ==
    { <<c, "pcTwo", {}>> : c \in Cust } \cup
    { <<"c1", "pcTwo", F>> : F \in Failures({"ledger", "tier", "fatal"}) } \cup
    { <<UnknownCustomer, "pcOne", {}>>, <<"c1", UnknownCriteria, {}>>,
      <<"c1", "pcBad", {}>> }

AddIndividualStep ==
    \E r \in AddRequests : addPointsIndividual(r[1], r[2], DefaultRequestedBy, r[3])

\* Grants only: every customer and every point criteria, known or not
GrantAnyStep ==
    \E c \in Cust \cup {UnknownCustomer},
       pc \in PointCriteriaIds \cup {UnknownCriteria},
       F \in Failures({"ledger", "tier", "fatal"}) :
      addPointsIndividual(c, pc, DefaultRequestedBy, F)

NextGrant == GrantAnyStep

SpecGrant == Init /\ [][NextGrant]_vars

ReduceRequests ==
    { <<c, points>> : c \in Cust, points \in 1..MaxRedeem } \cup
    { <<UnknownCustomer, 1>>, <<"c1", 0>> }

ReduceStep ==
    \E r \in ReduceRequests, fatal \in 0..2 :
      \E o \in OrdersFor(r[1]) :
        \E failAt \in 0..(Len(o) + 1) :
          /\ (IF failAt = 0 THEN 0 ELSE 1) + (IF fatal = 0 THEN 0 ELSE 1)
                <= MaxFail
          /\ reducePoints(r[1], r[2], o, failAt, fatal)

SweepStep ==
    \E F \in Failures(SweepErrors(ExpiredPointIds(ledger, clock))) :
        processPointsAndTiers(F)

Next ==
    \/ AddIndividualStep
    \/ ReduceStep
    \/ SweepStep
    \/ Tick

Spec == Init /\ [][Next]_vars

\* the tier lifecycle: grants, the scheduled job and time
GrantStep ==
    \E c \in Cust : addPointsIndividual(c, "pcTwo", DefaultRequestedBy, {})

NextTier ==
    \/ GrantStep
    \/ SweepStep
    \/ Tick

SpecTier == InitTier /\ [][NextTier]_vars

\* Every tier has criteria, those of the lower tiers differ: a customer of
\* the top tier can qualify for the middle tier, for the base tier only, or
\* for none
ScanCriteria ==
    ("t0" :> Criteria(1, 1, 1)) @@ ("t1" :> Criteria(1, 1, 4)) @@
    ("t2" :> Criteria(1, 2, 1))

InitScan ==
    /\ EmptyStore
    /\ customers = Customers("t2", "t0")
    /\ criteria = ScanCriteria
    /\ priority = [c \in Cust |-> << >>]

SpecScan == InitScan /\ [][NextTier]_vars

\* Bulk uploads: rows that pass the validation and one row of each kind
\* that does not
ValidRows ==
    { Row(TRUE, "c1", 1, TRUE, "pcOne", "note"),
      Row(TRUE, "c2", 2, TRUE, "pcOne", "note") }

InvalidRows ==
    { Row(FALSE, "c1", 1, TRUE, "pcOne", "note"),
      Row(TRUE, "", 1, TRUE, "pcOne", "note"),
      Row(TRUE, "c1", 0, TRUE, "pcOne", "note"),
      Row(TRUE, "c1", 0, FALSE, "pcOne", "note"),
      Row(TRUE, "c1", 1, TRUE, "", "note"),
      Row(TRUE, "c1", 1, TRUE, "pcOne", ""),
      Row(TRUE, UnknownCustomer, 1, TRUE, "pcOne", "note"),
      Row(TRUE, "c1", 1, TRUE, UnknownCriteria, "note") }

RECURSIVE SeqsUpTo(_, _)
SeqsUpTo(S, n) ==
    IF n = 0 THEN { << >> }
    ELSE LET shorter == SeqsUpTo(S, n - 1)
         IN shorter \cup { Append(q, x) : q \in shorter, x \in S }

\* the errors that can occur on the path of the upload: a rejected upload
\* ends before the unit of work starts
BulkErrors(rows) ==
    IF validationErrors(rows) # {} THEN { BulkError("validation", 0) }
    ELSE { BulkError("ledger", i) : i \in 1..Len(rows) } \cup
         { BulkError("tier", i) : i \in 1..Len(rows) } \cup
         { BulkError("fatal", 0), BulkError("validation", 0) }

RejectedUpload ==
    \E upload \in {"nofile", "norequester", "unparsable"} :
      addPointsBulk(upload, << >>, {})

BulkStep ==
    \E rows \in SeqsUpTo(ValidRows \cup InvalidRows, MaxRows) :
      \E F \in Failures(BulkErrors(rows)) :
        addPointsBulk("ok", rows, F)

NextBulk ==
    \/ RejectedUpload
    \/ BulkStep

SpecBulk == Init /\ [][NextBulk]_vars

----------------------------------------------------------------------------
\* Interleaved units of work.  A handler reads the ledger when it starts and
\* writes from what it read; other units of work may commit in between.

MaxInflight == 2

Unit(kind, c, points, docs, now) ==
    [kind |-> kind, customer_id |-> c, points |-> points, docs |-> docs,
     now |-> now]

Without(q, i) == [k \in 1..(Len(q) - 1) |-> IF k < i THEN q[k] ELSE q[k + 1]]

\* reducePoints up to and including the find of redeemPointsFIFO
reducePointsStart(customer_id, points, o) ==
    /\ Len(inflight) < MaxInflight
    /\ customer_id \in Cust
    /\ points > 0
    /\ inflight' = Append(inflight,
                          Unit("reduce", customer_id, points,
                               ReadEntries(ledger, o), clock))
    /\ UNCHANGED <<clock, customers, ledger, transactions, criteria,
                   priority, resp>>

\* the rest of reducePoints: the updates from the documents read, the
\* transaction, the balance, the commit
reducePointsEnd(i) ==
    /\ i \in 1..Len(inflight)
    /\ inflight[i].kind = "reduce"
    /\ TotalTxns < MaxTxns
    /\ ReduceFinish(inflight[i].customer_id, inflight[i].points,
                    inflight[i].docs, 0, FALSE)
    /\ inflight' = Without(inflight, i)
    /\ UNCHANGED <<clock, criteria, priority>>

\* processPointsAndTiers up to and including the find of the expired points
processPointsAndTiersStart ==
    /\ Len(inflight) < MaxInflight
    /\ \A i \in 1..Len(inflight) : inflight[i].kind # "sweep"
    /\ inflight' = Append(inflight,
                          Unit("sweep", "none", 0,
                               ReadEntries(ledger,
                                   IdSeq(ExpiredPointIds(ledger, clock))),
                               clock))
    /\ UNCHANGED <<clock, customers, ledger, transactions, criteria,
                   priority, resp>>

\* the rest of processPointsAndTiers
processPointsAndTiersEnd(i) ==
    /\ i \in 1..Len(inflight)
    /\ inflight[i].kind = "sweep"
    /\ SweepFinish(inflight[i].docs, inflight[i].now, {})
    /\ inflight' = Without(inflight, i)
    /\ UNCHANGED <<clock, criteria, priority>>

ReduceStartStep ==
    \E c \in {"c1"}, points \in 1..MaxRedeem :
      \E o \in OrdersFor(c) : reducePointsStart(c, points, o)

ReduceEndStep == \E i \in 1..Len(inflight) : reducePointsEnd(i)

SweepStartStep == processPointsAndTiersStart

SweepEndStep == \E i \in 1..Len(inflight) : processPointsAndTiersEnd(i)

GrantOneStep ==
    addPointsIndividual("c1", "pcTwo", DefaultRequestedBy, {})

NextConc ==
    \/ GrantOneStep
    \/ ReduceStartStep
    \/ ReduceEndStep
    \/ SweepStartStep
    \/ SweepEndStep
    \/ Tick

\* c1 holds the tier of its priority record, so that the tier phase of the
\* job leaves the customer alone
InitConc ==
    /\ EmptyStore
    /\ customers = Customers("t1", "t0")
    /\ criteria = TopTierCriteria
    /\ priority = ("c1" :> <<PriorityRecord("t1", TRUE)>>) @@ ("c2" :> << >>)

SpecConc == InitConc /\ [][NextConc]_vars

----------------------------------------------------------------------------
\* Properties

\* sum of the points of the active ledger entries of c
ActiveLedgerPoints(c) ==
    SumSeq([k \in 1..Len(ledger[c]) |->
              IF ledger[c][k].status = "active" THEN ledger[c][k].points
              ELSE 0])

\* sum of the points of the completed transactions of c
CompletedTransactionPoints(c) ==
    SumSeq([k \in 1..Len(transactions[c]) |->
              IF transactions[c][k].status = "completed"
              THEN transactions[c][k].points ELSE 0])

\* the entries of c that a redemption at time now may consume
Eligible(c, id, now) ==
    /\ id[1] = c
    /\ Entry(ledger, id).status = "active"
    /\ Entry(ledger, id).expiryDate >= now

EligiblePoints(c, now) ==
    LET S == { id \in LedgerIds(ledger) : Eligible(c, id, now) }
    IN SumOver(S, [id \in S |-> Entry(ledger, id).points])

\* a step of the handler op (time does not pass within a handler)
HandlerStep(op) == resp'.op = op /\ clock' = clock

\* C1: after every committed addPointsIndividual, reducePoints and
\* processPointsAndTiers, each customer's total_points equals the sum of the
\* points of its ledger entries with status "active".
C1_BalanceEqualsActiveLedger ==
    \A c \in Cust : customers[c].total_points = ActiveLedgerPoints(c)

\* C2: after every committed operation, each customer's total_points equals
\* the signed sum of the points of its completed transactions.
C2_BalanceEqualsTransactionSum ==
    \A c \in Cust : customers[c].total_points = CompletedTransactionPoints(c)

\* C3: reducePoints changes only ledger entries of the named customer that
\* are active and not expired, and changes an entry only when every older
\* eligible entry of the customer has been redeemed in full.
C3_OnlyEligibleOldestFirst ==
    [][ HandlerStep("reducePoints") =>
          \A id \in LedgerIds(ledger) :
            Entry(ledger', id) # Entry(ledger, id) =>
              /\ Eligible(resp'.customer_id, id, clock)
              /\ \A older \in LedgerIds(ledger) :
                   ( /\ Eligible(resp'.customer_id, older, clock)
                     /\ Entry(ledger, older).earnedAt
                          < Entry(ledger, id).earnedAt )
                   => /\ Entry(ledger', older).status = "redeemed"
                      /\ Entry(ledger', older).points = 0 ]_vars

\* a redemption that went through two entries earned at different times
C3_Witness ==
    /\ resp.op = "reducePoints"
    /\ resp.code = 200
    /\ Len(resp.used) = 2
    /\ resp.used[1].earnedAt < resp.used[2].earnedAt

\* C4: a reducePoints request for more than the customer's eligible points
\* changes no ledger entry, no balance and no transaction, and its rejection
\* reports an available amount strictly smaller than the requested one.
C4_InsufficientChangesNothing ==
    [][ ( /\ HandlerStep("reducePoints")
          /\ resp'.customer_id \in Cust
          /\ resp'.requested > EligiblePoints(resp'.customer_id, clock) )
        => /\ UNCHANGED <<ledger, customers, transactions>>
           /\ resp'.code \in {400, 500}
           /\ resp'.code = 400 => resp'.available < resp'.requested ]_vars

\* a rejection of a customer who has points, but too few
C4_Witness ==
    /\ resp.op = "reducePoints"
    /\ resp.code = 400
    /\ resp.available > 0
    /\ resp.available < resp.requested
    /\ resp.available = EligiblePoints(resp.customer_id, clock)

\* C5: a successful reducePoints of R points redeems in full, oldest first,
\* every entry it uses but possibly the last, leaves that one active with a
\* positive remainder, changes no other entry, and reports a breakdown whose
\* points_used add up to R.
C5_FifoBreakdown ==
    [][ ( HandlerStep("reducePoints") /\ resp'.code = 200 ) =>
          LET used == resp'.used
              n == Len(used)
              usedIds == { used[k].loyalty_point_id : k \in 1..n }
          IN /\ n >= 1
             /\ SumSeq([k \in 1..n |-> used[k].points_used]) = resp'.requested
             /\ resp'.redeemed = resp'.requested
             /\ Cardinality(usedIds) = n
             /\ \A id \in LedgerIds(ledger) \ usedIds :
                    Entry(ledger', id) = Entry(ledger, id)
             /\ \A k \in 1..n :
                  LET id == used[k].loyalty_point_id IN
                  /\ used[k].original_points = Entry(ledger, id).points
                  /\ k < n => /\ used[k].fully_redeemed
                              /\ used[k].earnedAt <= used[k + 1].earnedAt
                  /\ IF used[k].fully_redeemed
                     THEN /\ used[k].points_used = used[k].original_points
                          /\ Entry(ledger', id).status = "redeemed"
                          /\ Entry(ledger', id).points = 0
                     ELSE /\ used[k].points_used > 0
                          /\ used[k].points_used < used[k].original_points
                          /\ Entry(ledger', id).status = "active"
                          /\ Entry(ledger', id).points =
                               used[k].original_points - used[k].points_used
        ]_vars

\* one entry redeemed in full and the next one decremented
C5_Witness ==
    /\ resp.op = "reducePoints"
    /\ resp.code = 200
    /\ Len(resp.used) = 2
    /\ resp.used[1].fully_redeemed
    /\ ~resp.used[2].fully_redeemed
    /\ Entry(ledger, resp.used[2].loyalty_point_id).status = "active"
    /\ Entry(ledger, resp.used[2].loyalty_point_id).points > 0

\* C6: the points of a ledger entry are never negative and never increase
\* once the entry exists.
C6_PointsNeverIncrease ==
    [][ \A id \in LedgerIds(ledger') :
          /\ Entry(ledger', id).points >= 0
          /\ id \in LedgerIds(ledger) =>
               Entry(ledger', id).points <= Entry(ledger, id).points ]_vars

\* C7: the points debited from a customer's balance by the committed
\* redemptions equal the decrease of the customer's ledger entries, and no
\* entry has negative points.
C7_DebitsEqualLedgerDecrease ==
    \A c \in Cust :
      /\ \A k \in 1..Len(ledger[c]) : ledger[c][k].points >= 0
      /\ SumSeq([k \in 1..Len(ledger[c]) |->
                   transactions[c][ledger[c][k].transaction_id].points
                     - ledger[c][k].points])
           = SumSeq([k \in 1..Len(transactions[c]) |->
                       IF transactions[c][k].transaction_type = "redeem"
                       THEN 0 - transactions[c][k].points ELSE 0])

\* C8: the points that expire transactions debit for a ledger entry never
\* exceed the points that redemptions have left in the entry.
C8_ExpiryDebitsOnlyRemainder ==
    \A c \in Cust :
      \A k \in 1..Len(ledger[c]) :
        SumSeq([j \in 1..Len(transactions[c]) |->
                  IF /\ transactions[c][j].transaction_type = "expire"
                     /\ transactions[c][j].reference_id
                          = ledger[c][k].transaction_id
                  THEN 0 - transactions[c][j].points ELSE 0])
          <= ledger[c][k].points

\* C9: a tier that processPointsAndTiers assigns to a customer with an active
\* priority record never has a hierarchy_level below that of the record's
\* tier.
C9_NeverBelowPriorityTier ==
    [][ HandlerStep("processPointsAndTiers") =>
          \A c \in Cust :
            ( /\ customers'[c].tier # customers[c].tier
              /\ priorityTier(c) # NoTier )
            => hierarchy_level[customers'[c].tier]
                 >= hierarchy_level[priorityTier(c)] ]_vars

\* a downgrade that stopped at the priority tier although the balance is
\* below that tier's threshold
C9_Witness ==
    \E c \in Cust :
      /\ resp.op = "processPointsAndTiers"
      /\ Len(transactions[c]) > 0
      /\ LET last == transactions[c][Len(transactions[c])] IN
           /\ last.transaction_type = "tier_downgrade"
           /\ last.new_tier = priorityTier(c)
           /\ hierarchy_level[last.previous_tier]
                > hierarchy_level[last.new_tier]
           /\ customers[c].tier = last.new_tier
           /\ customers[c].total_points < points_required[last.new_tier]

\* C10: a run of processPointsAndTiers in which no step fails sets every
\* customer whose tier is below the tier of its active priority record, the
\* base tier included, to that tier and creates exactly one
\* tier_protection_adjustment transaction for the customer.
C10_ProtectionUpgrade ==
    [][ ( /\ HandlerStep("processPointsAndTiers")
          /\ resp'.code = 200
          /\ resp'.logged = {} )
        => \A c \in Cust :
             ( /\ priorityTier(c) # NoTier
               /\ customers[c].tier # NoTier
               /\ hierarchy_level[customers[c].tier]
                    < hierarchy_level[priorityTier(c)] )
             => /\ customers'[c].tier = priorityTier(c)
                /\ Cardinality(
                     { k \in (Len(transactions[c]) + 1)
                               ..Len(transactions'[c]) :
                         transactions'[c][k].transaction_type
                           = "tier_protection_adjustment" }) = 1 ]_vars

\* the positions of the transactions of c that the step appends
AppendedTxns(c) == (Len(transactions[c]) + 1)..Len(transactions'[c])

\* the number of transactions of the given type that the step appends for c
AppendedOfType(c, type) ==
    Cardinality({ j \in AppendedTxns(c) :
                    transactions'[c][j].transaction_type = type })

\* C11: in a committed run of processPointsAndTiers, each ledger entry turned
\* expired has exactly one expire transaction, each tier lowering exactly one
\* tier_downgrade transaction, each protection upgrade exactly one
\* tier_protection_adjustment transaction, and no such transaction exists
\* without its change, also when a step of the run fails and is skipped.
C11_EveryChangePaired ==
    [][ ( HandlerStep("processPointsAndTiers") /\ resp'.code = 200 ) =>
          \A c \in Cust :
            /\ \A k \in 1..Len(ledger[c]) :
                 Cardinality(
                   { j \in AppendedTxns(c) :
                       /\ transactions'[c][j].transaction_type = "expire"
                       /\ transactions'[c][j].reference_id
                            = ledger[c][k].transaction_id })
                 = IF /\ ledger[c][k].status # "expired"
                      /\ ledger'[c][k].status = "expired"
                   THEN 1 ELSE 0
            /\ AppendedOfType(c, "tier_downgrade")
                 = IF /\ customers'[c].tier # customers[c].tier
                      /\ hierarchy_level[customers'[c].tier]
                           < hierarchy_level[customers[c].tier]
                   THEN 1 ELSE 0
            /\ AppendedOfType(c, "tier_protection_adjustment")
                 = IF /\ customers'[c].tier # customers[c].tier
                      /\ hierarchy_level[customers'[c].tier]
                           > hierarchy_level[customers[c].tier]
                   THEN 1 ELSE 0 ]_vars

\* C12: a fatal error during processPointsAndTiers aborts the run: no ledger
\* entry becomes expired, no balance is debited, no tier changes and no
\* transaction is appended.
C12_FatalErrorAbortsRun ==
    [][ ( HandlerStep("processPointsAndTiers")
          /\ (FatalError \in resp'.logged \/ resp'.code = 500) )
        => /\ resp'.code = 500
           /\ UNCHANGED <<ledger, customers, transactions>> ]_vars

\* a run that found an expired entry, met a fatal error and left the entry
\* active and the balance undebited
C12_Witness ==
    /\ resp.op = "processPointsAndTiers"
    /\ resp.code = 500
    /\ FatalError \in resp.logged
    /\ resp.requested >= 1
    /\ \E id \in ExpiredPointIds(ledger, clock) :
          /\ Entry(ledger, id).points > 0
          /\ customers[id[1]].total_points >= Entry(ledger, id).points
          /\ \A j \in 1..Len(transactions[id[1]]) :
                transactions[id[1]][j].transaction_type # "expire"

\* the errors of kind entry or customer that a run logged for x
LoggedFor(log, kinds, c, i) ==
    { p \in log : p.kind \in kinds /\ p.cust = c /\ p.idx = i }

\* C13: in a committed run of processPointsAndTiers, an error on one expired
\* entry or on one customer leaves the others processed: every other expired
\* entry is marked expired, gets its expire transaction and is debited, and
\* every other customer gets the tier that its evaluation determines.
C13_ErrorsDoNotStopTheRun ==
    [][ ( HandlerStep("processPointsAndTiers") /\ resp'.code = 200 ) =>
          LET expired == ExpiredPointIds(ledger, clock)
              ok == { id \in expired :
                        LoggedFor(resp'.logged, {"entry"}, id[1], id[2])
                          = {} }
          IN /\ resp'.requested = Cardinality(expired)
             /\ \A id \in ok :
                  /\ Entry(ledger', id).status = "expired"
                  /\ \E j \in AppendedTxns(id[1]) :
                        /\ transactions'[id[1]][j].transaction_type = "expire"
                        /\ transactions'[id[1]][j].reference_id
                             = Entry(ledger, id).transaction_id
                        /\ transactions'[id[1]][j].points
                             = 0 - Entry(ledger, id).points
             /\ \A c \in Cust :
                  LET mine == { id \in ok : id[1] = c } IN
                  customers'[c].total_points =
                    customers[c].total_points
                      - SumOver(mine, [id \in mine |->
                                         Entry(ledger, id).points])
             /\ \A c \in customersToCheck :
                  LoggedFor(resp'.logged, {"customer", "read"}, c, 0) = {}
                  => LET pass == ProcessCustomer(transactions, c,
                                     customers'[c].total_points, clock, 0, 0)
                     IN customers'[c].tier =
                          IF pass.tier = "keep" THEN customers[c].tier
                          ELSE pass.tier ]_vars

\* a committed run that selected two expired entries and logged an error
\* for one of them only
C13_Witness ==
    /\ resp.op = "processPointsAndTiers"
    /\ resp.code = 200
    /\ resp.requested = 2
    /\ Cardinality(resp.logged) = 1
    /\ \A p \in resp.logged : p.kind = "entry"
    /\ \E id \in LedgerIds(ledger) :
          /\ LoggedFor(resp.logged, {"entry"}, id[1], id[2]) = {}
          /\ Entry(ledger, id).status = "expired"
          /\ \E j \in 1..Len(transactions[id[1]]) :
                /\ transactions[id[1]][j].transaction_type = "expire"
                /\ transactions[id[1]][j].transaction_date = clock
                /\ transactions[id[1]][j].reference_id
                     = Entry(ledger, id).transaction_id

\* what a run of the expiry sweep does when it starts with no active entry
\* past its expiry date
SweepSelectsNothing ==
    ExpiredPointIds(ledger, clock) = {} =>
      /\ resp'.requested = 0
      /\ ledger' = ledger
      /\ \A c \in Cust :
            /\ customers'[c].total_points = customers[c].total_points
            /\ AppendedOfType(c, "expire") = 0

RunWouldChangeNothing ==
    LET plan == SweepPlan(ReadEntries(ledger,
                              IdSeq(ExpiredPointIds(ledger, clock))),
                          clock, {})
    IN /\ plan.ledgerWrites = << >>
       /\ plan.ledgerCreates = << >>
       /\ plan.txns = << >>
       /\ plan.incs = NoInc
       /\ plan.coinIncs = NoInc
       /\ \A c \in Cust : plan.tierSets[c] \in {"keep", customers[c].tier}

\* C15: a run of processPointsAndTiers right after a fully successful run,
\* with the same data and at the same time, changes no tier, no balance and
\* no ledger entry and appends no transaction.
C15_SecondRunChangesNothing ==
    [][ ( /\ HandlerStep("processPointsAndTiers")
          /\ resp'.code = 200
          /\ resp'.logged = {} )
        => RunWouldChangeNothing' ]_vars

\* a run that found nothing to do at the time at which an earlier run
\* expired an entry and lowered a tier
C15_Witness ==
    /\ resp.op = "processPointsAndTiers"
    /\ resp.code = 200
    /\ resp.logged = {}
    /\ resp.requested = 0
    /\ RunWouldChangeNothing
    /\ \E c \in Cust :
          \E i, j \in 1..Len(transactions[c]) :
            /\ transactions[c][i].transaction_type = "expire"
            /\ transactions[c][i].transaction_date = clock
            /\ transactions[c][j].transaction_type = "tier_downgrade"
            /\ transactions[c][j].transaction_date = clock
            /\ customers[c].tier = transactions[c][j].new_tier

\* the row of an upload is invalid: a required column is missing, the
\* customer_id is empty, the points are not a positive number, the criteria
\* or the note is empty, or the customer or the criteria is unknown
InvalidRow(r) ==
    \/ ~r.hasColumns
    \/ r.customer_id = ""
    \/ ~r.finite
    \/ r.points <= 0
    \/ r.point_criteria = ""
    \/ r.note = ""
    \/ r.customer_id \notin Cust
    \/ r.point_criteria \notin PointCriteriaIds

\* the positions of the invalid rows of an upload, as numbers of the sheet
\* (the header is row 1, the first data row is row 2)
InvalidRowNumbers(rows) ==
    { k + 1 : k \in { j \in 1..Len(rows) : InvalidRow(rows[j]) } }

\* C16: an addPointsBulk with at least one invalid row commits no
\* transaction, no balance change and no ledger entry for any row, and the
\* error list of its answer names the number of each invalid row, and of no
\* other row.
C16_InvalidRowRejectsBatch ==
    [][ ( /\ HandlerStep("addPointsBulk")
          /\ InvalidRowNumbers(resp'.rows) # {} )
        => /\ UNCHANGED <<ledger, customers, transactions>>
           /\ resp'.code # 200
           /\ resp'.code = 400 =>
                { e.rowNumber : e \in resp'.errors }
                  = InvalidRowNumbers(resp'.rows) ]_vars

\* an upload of a valid row followed by an invalid one, rejected with an
\* error that names row 3, after an earlier upload was committed
C16_Witness ==
    /\ resp.op = "addPointsBulk"
    /\ resp.code = 400
    /\ Len(resp.rows) = 2
    /\ ~InvalidRow(resp.rows[1])
    /\ InvalidRow(resp.rows[2])
    /\ { e.rowNumber : e \in resp.errors } = {3}
    /\ \E c \in Cust : Len(transactions[c]) > 0

\* the rows of an upload that name customer c
RowsOf(rows, c) == SelectSeq(rows, LAMBDA r : r.customer_id = c)

\* every row of the upload is committed: one earn transaction of the row's
\* points, one active ledger entry of the same points and a balance raised by
\* the same points
AllRowsCommitted(rows) ==
    \A c \in Cust :
      LET mine == RowsOf(rows, c)
          n == Len(mine)
      IN /\ Len(transactions'[c]) = Len(transactions[c]) + n
         /\ SubSeq(transactions'[c], 1, Len(transactions[c]))
              = transactions[c]
         /\ \A k \in 1..n :
              LET t == transactions'[c][Len(transactions[c]) + k]
              IN /\ t.transaction_type = "earn"
                 /\ t.status = "completed"
                 /\ t.points = mine[k].points
         /\ Len(ledger'[c]) = Len(ledger[c]) + n
         /\ SubSeq(ledger'[c], 1, Len(ledger[c])) = ledger[c]
         /\ \A k \in 1..n :
              LET p == ledger'[c][Len(ledger[c]) + k]
              IN /\ p.status = "active"
                 /\ p.points = mine[k].points
         /\ customers'[c].total_points =
              customers[c].total_points
                + SumSeq([k \in 1..n |-> mine[k].points])

\* C17: a fully validated addPointsBulk commits every row, each with one
\* earn transaction of the row's points, one active ledger entry of the same
\* points and a balance increase of the same points, or it commits nothing;
\* when nothing but the tier check fails, every row is committed.
C17_BulkAllOrNothing ==
    [][ ( /\ HandlerStep("addPointsBulk")
          /\ resp'.rows # << >>
          /\ InvalidRowNumbers(resp'.rows) = {} )
        => /\ \/ AllRowsCommitted(resp'.rows)
              \/ UNCHANGED <<ledger, customers, transactions>>
           /\ (\A e \in resp'.logged : e.kind = "tier")
                => /\ resp'.code = 200
                   /\ AllRowsCommitted(resp'.rows) ]_vars

\* C18: a reducePoints whose redeemPointsFIFO fails on a ledger read or
\* write, also after some entries were already updated, is answered with an
\* error and leaves every ledger entry, every balance and every transaction
\* log as it was.
C18_FifoFailureChangesNothing ==
    [][ ( /\ HandlerStep("reducePoints")
          /\ \E e \in resp'.logged : e.kind = "fifo" )
        => /\ UNCHANGED <<ledger, customers, transactions>>
           /\ resp'.code = 400
           /\ resp'.redeemed = 0 ]_vars

\* the second ledger update of a redemption failed after the first entry had
\* been updated, and the customer's entries are all still active
C18_Witness ==
    /\ resp.op = "reducePoints"
    /\ \E e \in resp.logged :
          /\ e = FifoError(resp.customer_id, e.step)
          /\ e.step >= 3
    /\ resp.customer_id \in Cust
    /\ Len(ledger[resp.customer_id]) >= 2
    /\ \A k \in 1..Len(ledger[resp.customer_id]) :
          ledger[resp.customer_id][k].status = "active"
    /\ ActiveLedgerPoints(resp.customer_id) >= resp.requested

\* the balances for which the evaluator is examined
BalanceRange == (0 - 1)..(points_required["t2"] + 1)

\* C19: for a tier without active eligibility criteria,
\* checkTierRetentionEligibility answers RETAIN exactly when the customer's
\* total_points is at least the tier's points_required, whatever the
\* customer's transactions (no read fails).
C19_NoCriteriaThresholdOnly ==
    \A c \in Cust, tier \in tiers, total_points \in BalanceRange :
      ~criteria[tier].exists =>
        ( checkTierRetentionEligibility(transactions, c, total_points, tier,
                                        clock, FALSE)
            <=> total_points >= points_required[tier] )

\* a run lowered a customer from a tier without criteria whose threshold the
\* customer's positive balance did not reach
C19_Witness ==
    \E c \in Cust :
      /\ resp.op = "processPointsAndTiers"
      /\ resp.code = 200
      /\ resp.logged = {}
      /\ Len(transactions[c]) > 0
      /\ LET last == transactions[c][Len(transactions[c])] IN
           /\ last.transaction_type = "tier_downgrade"
           /\ last.previous_tier \in tiers
           /\ ~criteria[last.previous_tier].exists
           /\ customers[c].total_points > 0
           /\ customers[c].total_points < points_required[last.previous_tier]
           /\ ~checkTierRetentionEligibility(transactions, c,
                  customers[c].total_points, last.previous_tier, clock, FALSE)

\* the sum of the completed earn transactions of c in the window of the
\* given length that ends index windows before now (index 0 is the most
\* recent window; a window holds its start and not its end)
WindowEarnings(c, now, days, index) ==
    LET inWindow ==
          { k \in 1..Len(transactions[c]) :
              /\ transactions[c][k].transaction_type = "earn"
              /\ transactions[c][k].status = "completed"
              /\ transactions[c][k].transaction_date >= now - (index + 1) * days
              /\ transactions[c][k].transaction_date < now - index * days }
    IN SumOver(inWindow, [k \in inWindow |-> transactions[c][k].points])

\* the windows, counted from the most recent one, that fall short
FailingWindows(c, crit, now) ==
    { i \in 0..(crit.consecutive_periods_required - 1) :
        WindowEarnings(c, now, crit.evaluation_period_days, i)
          < crit.net_earning_required }

\* the number of windows that an evaluation which stops at the first failing
\* window reads
WindowsToRead(c, crit, now) ==
    IF FailingWindows(c, crit, now) = {}
    THEN crit.consecutive_periods_required
    ELSE 1 + CHOOSE i \in FailingWindows(c, crit, now) :
                 \A j \in FailingWindows(c, crit, now) : i <= j

\* C20: for a tier with active criteria, checkTierRetentionEligibility
\* answers RETAIN for a customer exactly when none of the
\* consecutive_periods_required most recent windows falls short of
\* net_earning_required, and its loop reads the windows from the most
\* recent one and no window older than the first that falls short.
C20_RetainIffEveryWindowPasses ==
    \A c \in Cust, tier \in tiers :
      criteria[tier].exists =>
        /\ checkTierRetentionEligibility(transactions, c,
                                         customers[c].total_points, tier,
                                         clock, FALSE)
             <=> FailingWindows(c, criteria[tier], clock) = {}
        /\ PeriodsLoop(transactions, c, criteria[tier], clock, 0).reads
             = WindowsToRead(c, criteria[tier], clock)

\* tier a is not lower than tier b
NotLower(a, b) ==
    \/ a = b
    \/ /\ a \in tiers
       /\ b \in tiers
       /\ hierarchy_level[a] >= hierarchy_level[b]

\* the tier that the pass over c sets when no read of it throws, for the
\* balance that the run leaves
TierWithoutReadError(c) ==
    LET clean == ProcessCustomer(transactions, c, customers'[c].total_points,
                                 clock, 0, 0)
    IN IF clean.tier = "keep" THEN customers[c].tier ELSE clean.tier

\* C21: an evaluation of checkTierRetentionEligibility in which a read
\* throws answers RETAIN; in a committed run a customer whose evaluation for
\* the current tier threw keeps a tier that is not lower than the current
\* one, and a customer for whom any evaluation threw ends on a tier that is
\* not lower than the one the run sets without the error (the pass over the
\* customer itself did not throw).
C21_EvaluationErrorRetains ==
    [][ ( /\ HandlerStep("processPointsAndTiers")
          /\ resp'.code = 200 )
        => /\ \A c \in Cust, tier \in tiers, total_points \in BalanceRange :
                checkTierRetentionEligibility(transactions, c, total_points,
                                              tier, clock, TRUE)
           /\ \A e \in resp'.logged :
                ( /\ e.kind = "read"
                  /\ \A s \in 1..2 :
                       CustomerError(e.cust, s) \notin resp'.logged ) =>
                  /\ e.step = 1 =>
                       NotLower(customers'[e.cust].tier,
                                customers[e.cust].tier)
                  /\ NotLower(customers'[e.cust].tier,
                              TierWithoutReadError(e.cust)) ]_vars

\* a committed run in which the evaluation of a customer for the current
\* tier threw: the customer, who has no priority record and does not meet
\* the retention rule of the tier, was not lowered
C21_Witness ==
    \E c \in Cust :
      /\ resp.op = "processPointsAndTiers"
      /\ resp.code = 200
      /\ resp.logged = {ReadError(c, 1)}
      /\ customers[c].tier \in tiers
      /\ customers[c].tier # bronzeTier
      /\ priorityTier(c) = NoTier
      /\ ~checkTierRetentionEligibility(transactions, c,
              customers[c].total_points, customers[c].tier, clock, FALSE)
      /\ \A k \in 1..Len(transactions[c]) :
            transactions[c][k].transaction_type # "tier_downgrade"

\* the tiers strictly below the tier of c for which c, with the balance the
\* run leaves, passes the retention evaluation
PassingLowerTiers(c) ==
    { t \in tiers :
        /\ hierarchy_level[t] < hierarchy_level[customers[c].tier]
        /\ checkTierRetentionEligibility(transactions, c,
               customers'[c].total_points, t, clock, FALSE) }

\* the highest of them, and the tier of the lowest hierarchy_level when
\* there is none
ExpectedDowngradeTarget(c) ==
    IF PassingLowerTiers(c) = {}
    THEN CHOOSE t \in tiers :
           \A u \in tiers : hierarchy_level[t] <= hierarchy_level[u]
    ELSE CHOOSE t \in PassingLowerTiers(c) :
           \A u \in PassingLowerTiers(c) :
             hierarchy_level[u] <= hierarchy_level[t]

\* C22: in a committed run without error, a customer above the base tier
\* who has no active priority record and fails the retention evaluation for
\* the current tier ends on the highest tier strictly below the current one
\* for which the evaluation passes, and on the base tier when there is none;
\* the tier_downgrade transaction names that tier.
C22_DowngradeTargetHighestPassing ==
    [][ ( /\ HandlerStep("processPointsAndTiers")
          /\ resp'.code = 200
          /\ resp'.logged = {} )
        => \A c \in Cust :
             ( /\ customers[c].tier \in tiers
               /\ customers[c].tier # bronzeTier
               /\ priorityTier(c) = NoTier
               /\ ~checkTierRetentionEligibility(transactions, c,
                       customers'[c].total_points, customers[c].tier,
                       clock, FALSE) )
             => /\ customers'[c].tier = ExpectedDowngradeTarget(c)
                /\ Len(transactions'[c]) > Len(transactions[c])
                /\ LET last == transactions'[c][Len(transactions'[c])] IN
                     /\ last.transaction_type = "tier_downgrade"
                     /\ last.previous_tier = customers[c].tier
                     /\ last.new_tier = ExpectedDowngradeTarget(c) ]_vars

\* a run lowered a customer by one level although a lower tier exists (the
\* nearest lower tier passed)
C22_Witness ==
    \E c \in Cust :
      /\ resp.op = "processPointsAndTiers"
      /\ resp.code = 200
      /\ resp.logged = {}
      /\ priorityTier(c) = NoTier
      /\ Len(transactions[c]) > 0
      /\ LET last == transactions[c][Len(transactions[c])] IN
           /\ last.transaction_type = "tier_downgrade"
           /\ last.transaction_date = clock
           /\ last.previous_tier = "t2"
           /\ last.new_tier = "t1"
           /\ customers[c].tier = "t1"
           /\ criteria["t1"].exists
           /\ checkTierRetentionEligibility(transactions, c,
                  customers[c].total_points, "t1", clock, FALSE)

\* the pass of the run over c, without injected error, for the balance that
\* the run leaves
CleanPass(c) ==
    ProcessCustomer(transactions, c, customers'[c].total_points, clock, 0, 0)

\* the priority protection applies to c: the tier of c is below the tier of
\* its active priority record
BelowPriorityTier(c) ==
    /\ priorityTier(c) # NoTier
    /\ customers[c].tier \in tiers
    /\ hierarchy_level[customers[c].tier] < hierarchy_level[priorityTier(c)]

\* C23: a committed run of processPointsAndTiers passes over every customer
\* whose tier is not the base tier; a customer to whom the priority
\* protection applies is raised to the priority tier and the pass ends
\* there: no retention evaluation, no lower tier and no tier_downgrade
\* transaction for that customer in the run; every other such customer gets
\* the retention evaluation.
C23_ProtectionBeforeRetention ==
    [][ ( /\ HandlerStep("processPointsAndTiers")
          /\ resp'.code = 200 )
        => \A c \in Cust :
             /\ ( customers[c].tier # bronzeTier /\ BelowPriorityTier(c)
                  /\ \A e \in resp'.logged : e.cust # c )
                => /\ customers'[c].tier = priorityTier(c)
                   /\ ~CleanPass(c).evaluated
                   /\ AppendedOfType(c, "tier_downgrade") = 0
                   /\ AppendedOfType(c, "tier_protection_adjustment") = 1
             /\ ( customers[c].tier # bronzeTier /\ BelowPriorityTier(c) )
                => /\ customers'[c].tier
                        \in {customers[c].tier, priorityTier(c)}
                   /\ AppendedOfType(c, "tier_downgrade") = 0
             /\ ( customers[c].tier # bronzeTier /\ ~BelowPriorityTier(c)
                  /\ resp'.logged = {} )
                => /\ CleanPass(c).evaluated
                   /\ customers'[c].tier =
                        IF CleanPass(c).tier = "keep" THEN customers[c].tier
                        ELSE CleanPass(c).tier ]_vars

\* a run raised a customer to the priority tier although the customer does
\* not meet the retention rule of the tier held before
C23_Witness ==
    \E c \in Cust :
      /\ resp.op = "processPointsAndTiers"
      /\ resp.code = 200
      /\ resp.logged = {}
      /\ Len(transactions[c]) > 0
      /\ LET last == transactions[c][Len(transactions[c])] IN
           /\ last.transaction_type = "tier_protection_adjustment"
           /\ last.transaction_date = clock
           /\ last.new_tier = priorityTier(c)
           /\ customers[c].tier = last.new_tier
           /\ last.previous_tier # bronzeTier
           /\ ~checkTierRetentionEligibility(transactions, c,
                   customers[c].total_points, last.previous_tier, clock,
                   FALSE)

\* the entries that a sweep at the current time selects, and those of them
\* that the step leaves expired
SelectedEntries == ExpiredPointIds(ledger, clock)

ExpiredByStep(c) ==
    { id \in SelectedEntries :
        id[1] = c /\ Entry(ledger', id).status = "expired" }

\* C24: a committed run of processPointsAndTiers sets every active entry
\* with expiryDate < now to expired with its points unchanged (or skips the
\* entry altogether), lowers the total_points of each customer by exactly
\* the points of the customer's entries it expired, appends for each of them
\* one expire transaction of minus the entry's points, and leaves every
\* other entry untouched.
C24_ExpiryDebitsEntryPoints ==
    [][ ( /\ HandlerStep("processPointsAndTiers")
          /\ resp'.code = 200 )
        => /\ \A c \in Cust : Len(ledger'[c]) = Len(ledger[c])
           /\ \A id \in LedgerIds(ledger) :
                IF id \in SelectedEntries
                THEN \/ Entry(ledger', id) = Entry(ledger, id)
                     \/ Entry(ledger', id) =
                          [Entry(ledger, id) EXCEPT !.status = "expired"]
                ELSE Entry(ledger', id) = Entry(ledger, id)
           /\ \A id \in SelectedEntries :
                resp'.logged = {} => Entry(ledger', id).status = "expired"
           /\ \A c \in Cust :
                /\ customers'[c].total_points =
                     customers[c].total_points
                       - SumOver(ExpiredByStep(c),
                                 [id \in ExpiredByStep(c) |->
                                    Entry(ledger, id).points])
                /\ AppendedOfType(c, "expire")
                     = Cardinality(ExpiredByStep(c))
                /\ \A id \in ExpiredByStep(c) :
                     \E j \in AppendedTxns(c) :
                       /\ transactions'[c][j].transaction_type = "expire"
                       /\ transactions'[c][j].points
                            = 0 - Entry(ledger, id).points
                       /\ transactions'[c][j].reference_id
                            = Entry(ledger, id).transaction_id ]_vars

\* the fixed-rate rules of a point criteria that have a finite positive rate
ValidFixedRules(pc) ==
    { i \in 1..Len(pointSystem[pc]) :
        /\ pointSystem[pc][i].pointType = "fixed"
        /\ pointSystem[pc][i].finite
        /\ pointSystem[pc][i].pointRate > 0 }

\* C25: addPointsIndividual for a known customer and a known point criteria
\* that has no fixed-rate rule with a finite positive rate is rejected and
\* writes nothing; an accepted grant awards the rate of a fixed rule of the
\* criteria.
C25_OnlyFixedRateCriteriaAccepted ==
    [][ ( /\ HandlerStep("addPointsIndividual")
          /\ resp'.customer_id \in Cust
          /\ resp'.point_criteria \in PointCriteriaIds )
        => /\ ValidFixedRules(resp'.point_criteria) = {}
                => /\ UNCHANGED <<ledger, customers, transactions>>
                   /\ resp'.code = 400
           /\ resp'.code = 201
                => \E i \in ValidFixedRules(resp'.point_criteria) :
                     resp'.requested
                       = pointSystem[resp'.point_criteria][i].pointRate
       ]_vars

\* C26: a committed addPointsIndividual of P points for customer c appends
\* to c exactly one earn transaction of +P, raises the total_points of c by
\* P and creates exactly one ledger entry, active, of P points, that
\* references that transaction, and touches no other customer; when nothing
\* but the tier check fails the grant is committed.
C26_GrantWritesAllThree ==
    [][ ( /\ HandlerStep("addPointsIndividual")
          /\ resp'.customer_id \in Cust )
        => LET c == resp'.customer_id
               P == resp'.requested
           IN /\ resp'.code = 201 =>
                   /\ transactions'[c] =
                        Append(transactions[c],
                               ManualTransaction(c, "earn", P, clock,
                                                 DefaultRequestedBy))
                   /\ customers'[c].total_points
                        = customers[c].total_points + P
                   /\ Len(ledger'[c]) = Len(ledger[c]) + 1
                   /\ SubSeq(ledger'[c], 1, Len(ledger[c])) = ledger[c]
                   /\ LET p == ledger'[c][Len(ledger'[c])] IN
                        /\ p.status = "active"
                        /\ p.points = P
                        /\ p.transaction_id = Len(transactions'[c])
                   /\ \A d \in Cust \ {c} :
                        /\ transactions'[d] = transactions[d]
                        /\ ledger'[d] = ledger[d]
                        /\ customers'[d] = customers[d]
              /\ ( /\ resp'.logged # {}
                   /\ \A e \in resp'.logged : e.kind = "tier" )
                   => resp'.code = 201 ]_vars

\* C27: addPointsIndividual for an unknown customer or an unknown point
\* criteria, and reducePoints for an unknown customer, leave every customer,
\* ledger entry and transaction unchanged and answer not found (404); a
\* reducePoints whose customer lookup itself throws answers 500.
C27_NotFoundChangesNothing ==
    [][ ( \/ /\ HandlerStep("addPointsIndividual")
             /\ \/ resp'.customer_id \notin Cust
                \/ resp'.point_criteria \notin PointCriteriaIds
          \/ /\ HandlerStep("reducePoints")
             /\ resp'.customer_id \notin Cust )
        => /\ UNCHANGED <<ledger, customers, transactions>>
           /\ \/ resp'.code = 404
              \/ resp'.op = "reducePoints" /\ resp'.code = 500 ]_vars

\* a grant for a known customer who holds points, rejected because the
\* point criteria does not resolve
C27_Witness ==
    /\ resp.op = "addPointsIndividual"
    /\ resp.code = 404
    /\ resp.customer_id \in Cust
    /\ resp.point_criteria = UnknownCriteria
    /\ customers[resp.customer_id].total_points > 0
    /\ Len(ledger[resp.customer_id]) > 0

----------------------------------------------------------------------------
\* Priority customer administration (priority_customers.controller.js).
\* A handler reads, awaits and then writes with save() or create(), outside
\* any transaction: it is two steps, the reads and the write, and other
\* requests may run in between.

UnknownTier == "tX"

\* a request between its reads and its write: the document it read (doc), the
\* position of that document among the customer's documents (idx, 0 for
\* none) and the values it is about to assign
PriorityRequest(kind, c, idx, tier_id, is_active, doc) ==
    [kind |-> kind, customer_id |-> c, idx |-> idx, tier_id |-> tier_id,
     is_active |-> is_active, doc |-> doc]

PriorityResponse(op, c, code) == Response(op, c, code, 0, 0, 0, << >>, {})

\* PriorityCustomer.findById(id): the _id of a document is the customer it
\* belongs to and its position among the documents of that customer
findPriorityById(P, c, idx) ==
    IF c \in Cust /\ idx \in 1..Len(P[c]) THEN P[c][idx] ELSE NoRecord

\* position of the document PriorityCustomer.findOne({ customer_id }) yields
findOnePriorityIndex(P, c) ==
    IF c \in Cust /\ Len(P[c]) > 0 THEN 1 ELSE 0

\* document.save(): a $set of the paths whose value differs from the value
\* the document was read with
savePriority(P, c, idx, doc, tier_id, is_active) ==
    [P EXCEPT ![c][idx] =
        [@ EXCEPT !.tier_id = IF tier_id # doc.tier_id THEN tier_id ELSE @,
                  !.is_active = IF is_active # doc.is_active
                                THEN is_active ELSE @]]

\* PriorityCustomer.create without the unique index on customer_id
createPriorityDocumentNoIndex(P, c, tier_id) ==
    [ok |-> TRUE,
     priority |-> [P EXCEPT ![c] = Append(@, PriorityRecord(tier_id, TRUE))]]

\* PriorityCustomer.create: the unique index on customer_id rejects a second
\* document of the customer (duplicate key); is_active defaults to true
createPriorityDocument(P, c, tier_id) ==
    IF Len(P[c]) > 0
    THEN [ok |-> FALSE, priority |-> P]
    ELSE [ok |-> TRUE,
          priority |-> [P EXCEPT ![c] =
                           Append(@, PriorityRecord(tier_id, TRUE))]]

\* createPriorityCustomer up to and including findOne({ customer_id })
createPriorityCustomerStart(valid, customer_id, tier_id) ==
    LET idx == findOnePriorityIndex(priority, customer_id)
        existing == findPriorityById(priority, customer_id, idx)
        op == "createPriorityCustomer"
    IN /\ IF ~valid
          THEN resp' = PriorityResponse(op, customer_id, 400)
                 /\ UNCHANGED inflight
          ELSE IF customer_id \notin Cust \/ tier_id \notin tiers
          THEN resp' = PriorityResponse(op, customer_id, 500)
                 /\ UNCHANGED inflight
          ELSE IF existing.exists /\ existing.is_active
          THEN resp' = PriorityResponse(op, customer_id, 409)
                 /\ UNCHANGED inflight
          ELSE /\ Len(inflight) < MaxInflight
               /\ inflight' = Append(inflight,
                                  PriorityRequest("create", customer_id, idx,
                                                  tier_id, TRUE, existing))
               /\ UNCHANGED resp
       /\ UNCHANGED <<clock, customers, ledger, transactions, criteria,
                      priority>>

\* the rest of createPriorityCustomer: existing.save() or
\* PriorityCustomer.create, and the response
createPriorityCustomerEnd(i, saveError) ==
    LET u == inflight[i]
        op == "createPriorityCustomer"
        created == createPriorityDocument(priority, u.customer_id, u.tier_id)
    IN /\ u.kind = "create"
       /\ inflight' = Without(inflight, i)
       /\ IF saveError
          THEN /\ priority' = priority
               /\ resp' = PriorityResponse(op, u.customer_id, 500)
          ELSE IF u.doc.exists
          THEN /\ priority' = savePriority(priority, u.customer_id, u.idx,
                                           u.doc, u.tier_id, TRUE)
               /\ resp' = PriorityResponse(op, u.customer_id, 201)
          ELSE /\ priority' = created.priority
               /\ resp' = PriorityResponse(op, u.customer_id,
                                           IF created.ok THEN 201 ELSE 500)
       /\ UNCHANGED <<clock, customers, ledger, transactions, criteria>>

\* updatePriorityCustomer up to and including ensureTierExists; tier_id is
\* NoTier and is_active is "keep" when the body does not carry the field
updatePriorityCustomerStart(valid, c, idx, tier_id, is_active) ==
    LET priorityCustomer == findPriorityById(priority, c, idx)
        op == "updatePriorityCustomer"
    IN /\ IF ~valid
          THEN resp' = PriorityResponse(op, c, 400) /\ UNCHANGED inflight
          ELSE IF ~priorityCustomer.exists
          THEN resp' = PriorityResponse(op, c, 404) /\ UNCHANGED inflight
          ELSE IF tier_id # NoTier /\ tier_id \notin tiers
          THEN resp' = PriorityResponse(op, c, 500) /\ UNCHANGED inflight
          ELSE /\ Len(inflight) < MaxInflight
               /\ inflight' = Append(inflight,
                     PriorityRequest("update", c, idx,
                         IF tier_id = NoTier THEN priorityCustomer.tier_id
                                             ELSE tier_id,
                         IF is_active = "keep"
                         THEN priorityCustomer.is_active
                         ELSE is_active = "true",
                         priorityCustomer))
               /\ UNCHANGED resp
       /\ UNCHANGED <<clock, customers, ledger, transactions, criteria,
                      priority>>

\* the rest of updatePriorityCustomer: priorityCustomer.save() and the
\* response
updatePriorityCustomerEnd(i, saveError) ==
    LET u == inflight[i]
        op == "updatePriorityCustomer"
    IN /\ u.kind = "update"
       /\ inflight' = Without(inflight, i)
       /\ IF saveError
          THEN /\ priority' = priority
               /\ resp' = PriorityResponse(op, u.customer_id, 500)
          ELSE /\ priority' = savePriority(priority, u.customer_id, u.idx,
                                           u.doc, u.tier_id, u.is_active)
               /\ resp' = PriorityResponse(op, u.customer_id, 200)
       /\ UNCHANGED <<clock, customers, ledger, transactions, criteria>>

\* deletePriorityCustomer up to and including findById
deletePriorityCustomerStart(c, idx) ==
    LET priorityCustomer == findPriorityById(priority, c, idx)
        op == "deletePriorityCustomer"
    IN /\ IF ~priorityCustomer.exists
          THEN resp' = PriorityResponse(op, c, 404) /\ UNCHANGED inflight
          ELSE IF ~priorityCustomer.is_active
          THEN resp' = PriorityResponse(op, c, 200) /\ UNCHANGED inflight
          ELSE /\ Len(inflight) < MaxInflight
               /\ inflight' = Append(inflight,
                                  PriorityRequest("delete", c, idx,
                                      priorityCustomer.tier_id, FALSE,
                                      priorityCustomer))
               /\ UNCHANGED resp
       /\ UNCHANGED <<clock, customers, ledger, transactions, criteria,
                      priority>>

\* deletePriorityCustomer with a hard delete of the document
deletePriorityCustomerEndHard(i, saveError) ==
    LET u == inflight[i]
        op == "deletePriorityCustomer"
    IN /\ u.kind = "delete"
       /\ inflight' = Without(inflight, i)
       /\ IF saveError
          THEN /\ priority' = priority
               /\ resp' = PriorityResponse(op, u.customer_id, 500)
          ELSE /\ priority' = [priority EXCEPT ![u.customer_id] =
                                  Without(@, u.idx)]
               /\ resp' = PriorityResponse(op, u.customer_id, 200)
       /\ UNCHANGED <<clock, customers, ledger, transactions, criteria>>

\* the rest of deletePriorityCustomer: is_active = false, save(), response
deletePriorityCustomerEnd(i, saveError) ==
    LET u == inflight[i]
        op == "deletePriorityCustomer"
    IN /\ u.kind = "delete"
       /\ inflight' = Without(inflight, i)
       /\ IF saveError
          THEN /\ priority' = priority
               /\ resp' = PriorityResponse(op, u.customer_id, 500)
          ELSE /\ priority' = savePriority(priority, u.customer_id, u.idx,
                                           u.doc, u.tier_id, FALSE)
               /\ resp' = PriorityResponse(op, u.customer_id, 200)
       /\ UNCHANGED <<clock, customers, ledger, transactions, criteria>>

\* the customers and tiers the administration requests name
PriorityCust == {"c1"}
PriorityTiers == {"t1", "t2"}

\* the ids a request may name: those of the customer's documents and one
\* that is not in the collection
PriorityIdx(c) == 1..(IF c \in Cust THEN Len(priority[c]) + 1 ELSE 1)

CreatePriorityStartStep ==
    \E valid \in BOOLEAN, c \in PriorityCust \cup {UnknownCustomer},
       t \in PriorityTiers \cup {UnknownTier} :
      createPriorityCustomerStart(valid, c, t)

CreatePriorityEndStep ==
    \E i \in 1..Len(inflight), saveError \in BOOLEAN :
      createPriorityCustomerEnd(i, saveError)

UpdatePriorityStartStep ==
    \E valid \in BOOLEAN, c \in PriorityCust \cup {UnknownCustomer},
       t \in PriorityTiers \cup {UnknownTier, NoTier},
       a \in {"keep", "true", "false"} :
      \E idx \in PriorityIdx(c) :
        updatePriorityCustomerStart(valid, c, idx, t, a)

UpdatePriorityEndStep ==
    \E i \in 1..Len(inflight), saveError \in BOOLEAN :
      updatePriorityCustomerEnd(i, saveError)

DeletePriorityStartStep ==
    \E c \in PriorityCust \cup {UnknownCustomer} :
      \E idx \in PriorityIdx(c) : deletePriorityCustomerStart(c, idx)

DeletePriorityEndStep ==
    \E i \in 1..Len(inflight), saveError \in BOOLEAN :
      deletePriorityCustomerEnd(i, saveError)

NextPriority ==
    \/ CreatePriorityStartStep
    \/ CreatePriorityEndStep
    \/ UpdatePriorityStartStep
    \/ UpdatePriorityEndStep
    \/ DeletePriorityStartStep
    \/ DeletePriorityEndStep

InitPriority ==
    /\ EmptyStore
    /\ customers = Customers("t1", "t0")
    /\ criteria = TopTierCriteria
    /\ priority = [c \in Cust |-> << >>]

SpecPriority == InitPriority /\ [][NextPriority]_vars

\* the customer has an active PriorityCustomer document
HasActivePriority(c) ==
    c \in Cust /\ \E i \in 1..Len(priority[c]) : priority[c][i].is_active

\* the request a step has moved from its reads to its pending write
Pending(kind) ==
    /\ Len(inflight') = Len(inflight) + 1
    /\ inflight'[Len(inflight')].kind = kind

\* C28: whatever the sequence and interleaving of createPriorityCustomer,
\* updatePriorityCustomer and deletePriorityCustomer, every customer has at
\* most one PriorityCustomer document, hence at most one active one; a
\* createPriorityCustomer that finds an active document of the customer
\* answers 409 and changes nothing, and no createPriorityCustomer that found
\* one goes on to write
C28_AtMostOneRecord ==
    /\ [](\A c \in Cust :
            /\ Len(priority[c]) <= 1
            /\ Cardinality({ i \in 1..Len(priority[c]) :
                               priority[c][i].is_active }) <= 1)
    /\ [][ /\ ( resp'.op = "createPriorityCustomer" /\ resp'.code = 409 )
               => /\ priority' = priority
                  /\ HasActivePriority(resp'.customer_id)
           /\ Pending("create")
               => ~HasActivePriority(inflight'[Len(inflight')].customer_id)
         ]_vars

\* a createPriorityCustomer that found no document is still to write while
\* another request has created the document of the customer, and a
\* createPriorityCustomer was answered 409
C28_Witness ==
    /\ \E i \in 1..Len(inflight) :
          /\ inflight[i].kind = "create"
          /\ ~inflight[i].doc.exists
          /\ Len(priority[inflight[i].customer_id]) = 1
    /\ resp.op = "createPriorityCustomer"
    /\ resp.code = 409

\* the request at position i of kind has made its write and answered
Finished(kind, i) ==
    /\ i \in 1..Len(inflight)
    /\ inflight[i].kind = kind
    /\ inflight' = Without(inflight, i)

\* C29: removing a priority customer never deletes the document: the write
\* of deletePriorityCustomer leaves every customer's documents in place and
\* changes nothing but is_active of the document named, to false; a
\* deletePriorityCustomer that finds the document inactive answers without a
\* write; a createPriorityCustomer that found the customer's inactive
\* document adds no document and leaves that document active, with the tier
\* of the request when nothing else wrote the document in between
C29_SoftDeleteAndReactivate ==
    [][ /\ \A c \in Cust : Len(priority'[c]) >= Len(priority[c])
        /\ Len(inflight') >= Len(inflight) => priority' = priority
        /\ Pending("delete") => inflight'[Len(inflight')].doc.is_active
        /\ \A i \in 1..Len(inflight) :
             LET u == inflight[i]
                 c == u.customer_id
             IN /\ Finished("delete", i)
                    => /\ \A d \in Cust : Len(priority'[d]) = Len(priority[d])
                       /\ \A d \in Cust : \A k \in 1..Len(priority[d]) :
                            IF d = c /\ k = u.idx /\ resp'.code = 200
                            THEN priority'[d][k] =
                                   [priority[d][k] EXCEPT !.is_active = FALSE]
                            ELSE priority'[d][k] = priority[d][k]
                /\ ( Finished("create", i) /\ u.doc.exists
                       /\ resp'.code = 201 )
                    => /\ \A d \in Cust : Len(priority'[d]) = Len(priority[d])
                       /\ priority'[c][u.idx].is_active
                       /\ priority[c][u.idx] = u.doc
                            => priority'[c][u.idx] =
                                 PriorityRecord(u.tier_id, TRUE)
      ]_vars

\* a deletePriorityCustomer has deactivated the document of c1, and a
\* createPriorityCustomer with another tier has found that document and is
\* about to reactivate it
C29_Witness ==
    /\ resp.op = "deletePriorityCustomer"
    /\ resp.code = 200
    /\ Len(priority["c1"]) = 1
    /\ ~priority["c1"][1].is_active
    /\ \E i \in 1..Len(inflight) :
         /\ inflight[i].kind = "create"
         /\ inflight[i].doc = priority["c1"][1]
         /\ inflight[i].tier_id # priority["c1"][1].tier_id

\* C30: no step removes a ledger entry; the status of an entry changes only
\* from active to redeemed, in a reducePoints, or from active to expired, in
\* the sweep of processPointsAndTiers; an entry that is redeemed or expired
\* is never written again
C30_LedgerLifecycle ==
    [][ \A c \in Cust :
          /\ Len(ledger'[c]) >= Len(ledger[c])
          /\ \A i \in 1..Len(ledger[c]) :
               /\ ledger[c][i].status \in {"redeemed", "expired"}
                    => ledger'[c][i] = ledger[c][i]
               /\ ledger'[c][i].status # ledger[c][i].status
                    => \/ /\ ledger'[c][i].status = "redeemed"
                          /\ resp'.op = "reducePoints"
                       \/ /\ ledger'[c][i].status = "expired"
                          /\ resp'.op = "processPointsAndTiers"
      ]_vars

----------------------------------------------------------------------------
\* updateTransactionAppTypes (POST /api/reports/update-transaction-app-types)

\* Transaction.find({ app_type: null, "metadata.requested_by": { $exists:
\* true, $ne: null } })
transactionsToUpdate(T) ==
    { id \in UNION { { <<c, i>> : i \in 1..Len(T[c]) } : c \in Cust } :
        /\ T[id[1]][id[2]].app_type = NoApp
        /\ T[id[1]][id[2]].requested_by # "none" }

\* the transactions the loop updates: those whose requested_by names an app
\* and whose updateOne does not throw (F)
UpdatedTransactions(T, F) ==
    { id \in transactionsToUpdate(T) \ F :
        appTypeMap(T[id[1]][id[2]].requested_by) # NoApp }

\* the handler; a find that throws is answered 500 by the outer catch
updateTransactionAppTypes(F, findError) ==
    /\ IF findError THEN
         /\ transactions' = transactions
         /\ resp' = Response("updateTransactionAppTypes", "none", 500, 0, 0,
                             0, << >>, {})
       ELSE
         /\ transactions' =
              [c \in Cust |->
                 [i \in 1..Len(transactions[c]) |->
                    IF <<c, i>> \in UpdatedTransactions(transactions, F)
                    THEN [transactions[c][i] EXCEPT
                            !.app_type =
                               appTypeMap(transactions[c][i].requested_by)]
                    ELSE transactions[c][i]]]
         /\ resp' = Response("updateTransactionAppTypes", "none", 200,
                       Cardinality(transactionsToUpdate(transactions)), 0,
                       Cardinality(UpdatedTransactions(transactions, F)),
                       << >>, {})
    /\ UNCHANGED <<clock, customers, ledger, criteria, priority, inflight>>

UpdateAppTypesStep ==
    \E F \in Failures(transactionsToUpdate(transactions)),
       findError \in BOOLEAN :
      updateTransactionAppTypes(F, findError)

GrantFromStep ==
    \E c \in Cust, requested_by \in RequestedByNames :
      addPointsIndividual(c, "pcOne", requested_by, {})

NextAppType ==
    \/ GrantFromStep
    \/ UpdateAppTypesStep

SpecAppType == Init /\ [][NextAppType]_vars

\* C31: a transaction is never modified after it has been created: no step
\* removes a transaction or changes a field of an existing one
C31_TransactionsImmutable ==
    [][ \A c \in Cust :
          /\ Len(transactions'[c]) >= Len(transactions[c])
          /\ \A i \in 1..Len(transactions[c]) :
               transactions'[c][i] = transactions[c][i] ]_vars

----------------------------------------------------------------------------
\* The four balance operations served one at a time

BulkGrantStep ==
    \E rows \in SeqsUpTo(ValidRows, MaxRows) \ { << >> } :
      addPointsBulk("ok", rows, {})

NextBalance ==
    \/ AddIndividualStep
    \/ BulkGrantStep
    \/ ReduceStep
    \/ SweepStep
    \/ Tick

SpecBalance == Init /\ [][NextBalance]_vars

\* C32: from a store in which every balance equals the customer's active
\* ledger points, no sequence of addPointsIndividual, addPointsBulk,
\* reducePoints and processPointsAndTiers makes a total_points negative
C32_BalanceNeverNegative ==
    \A c \in Cust : customers[c].total_points >= 0

\* a balance brought back to zero by a redemption and an expiry
C32_Witness ==
    \E c \in Cust :
      /\ customers[c].total_points = 0
      /\ \E i, j \in 1..Len(transactions[c]) :
           /\ transactions[c][i].transaction_type = "redeem"
           /\ transactions[c][j].transaction_type = "expire"
           /\ transactions[c][j].points < 0

\* C33: in a committed run of processPointsAndTiers the expiry sweep is over
\* before the first tier evaluation: every expire transaction of the run
\* precedes every tier transaction of the run, and a customer of a tier
\* without criteria (no priority record, no error in the customer's pass)
\* keeps the tier exactly when the balance that the run's expiry debits leave
\* reaches the tier's points_required
C33_ExpiryBeforeTierEvaluation ==
    [][ ( /\ HandlerStep("processPointsAndTiers")
          /\ resp'.code = 200 )
        => \A c \in Cust :
             /\ \A i \in AppendedTxns(c) : \A j \in AppendedTxns(c) :
                  ( /\ transactions'[c][i].transaction_type = "expire"
                    /\ transactions'[c][j].transaction_type
                         \in {"tier_downgrade", "tier_protection_adjustment"} )
                  => i < j
             /\ ( /\ customers[c].tier \in tiers \ {bronzeTier}
                  /\ ~criteria[customers[c].tier].exists
                  /\ priorityTier(c) = NoTier
                  /\ LoggedFor(resp'.logged, {"customer", "read"}, c, 0) = {} )
                => ( customers'[c].tier = customers[c].tier
                     <=> customers'[c].total_points
                           >= points_required[customers[c].tier] ) ]_vars

\* a run expired points of a customer whose balance reached the threshold of
\* the tier before the run and not after its debit, and lowered the customer
C33_Witness ==
    \E c \in Cust :
      /\ resp.op = "processPointsAndTiers"
      /\ resp.code = 200
      /\ Len(transactions[c]) >= 2
      /\ LET n == Len(transactions[c])
             last == transactions[c][n]
             before == transactions[c][n - 1]
         IN /\ last.transaction_type = "tier_downgrade"
            /\ before.transaction_type = "expire"
            /\ before.transaction_date = last.transaction_date
            /\ last.transaction_date = clock
            /\ last.previous_tier \in tiers
            /\ ~criteria[last.previous_tier].exists
            /\ customers[c].total_points
                 < points_required[last.previous_tier]
            /\ customers[c].total_points - before.points
                 >= points_required[last.previous_tier]

\* C34: a run of processPointsAndTiers raises a tier only by the protection
\* upgrade: every tier_downgrade transaction of the run goes to a tier of a
\* strictly lower hierarchy_level, a customer whose tier rises was below the
\* tier of its priority record and now holds it, and a customer whose
\* downgrade target is clamped to the current tier keeps it, without a tier
\* transaction
C34_OnlyProtectionRaises ==
    [][ HandlerStep("processPointsAndTiers")
        => \A c \in Cust :
             /\ \A j \in AppendedTxns(c) :
                  transactions'[c][j].transaction_type = "tier_downgrade"
                  => /\ transactions'[c][j].previous_tier \in tiers
                     /\ transactions'[c][j].new_tier \in tiers
                     /\ hierarchy_level[transactions'[c][j].new_tier]
                          < hierarchy_level[transactions'[c][j].previous_tier]
                     /\ transactions'[c][j].previous_tier = customers[c].tier
                     /\ transactions'[c][j].new_tier = customers'[c].tier
             /\ ( /\ customers'[c].tier # customers[c].tier
                  /\ ~( /\ customers[c].tier \in tiers
                        /\ customers'[c].tier \in tiers
                        /\ hierarchy_level[customers'[c].tier]
                             < hierarchy_level[customers[c].tier] ) )
                => /\ BelowPriorityTier(c)
                   /\ customers'[c].tier = priorityTier(c)
                   /\ AppendedOfType(c, "tier_downgrade") = 0
             /\ ( /\ customers[c].tier \in tiers
                  /\ priorityTier(c) # NoTier
                  /\ hierarchy_level[priorityTier(c)]
                       = hierarchy_level[customers[c].tier] )
                => /\ customers'[c].tier = customers[c].tier
                   /\ AppendedOfType(c, "tier_downgrade") = 0
                   /\ AppendedOfType(c, "tier_protection_adjustment") = 0
      ]_vars

\* a committed run left a customer on the tier of its priority record
\* although the customer fails the retention evaluation for that tier and
\* passes the one for a lower tier: the clamped target was not lower
C34_Witness ==
    \E c \in Cust :
      /\ resp.op = "processPointsAndTiers"
      /\ resp.code = 200
      /\ resp.logged = {}
      /\ customers[c].tier \in tiers \ {bronzeTier}
      /\ priorityTier(c) = customers[c].tier
      /\ ~checkTierRetentionEligibility(transactions, c,
              customers[c].total_points, customers[c].tier, clock, FALSE)
      /\ checkTierRetentionEligibility(transactions, c,
              customers[c].total_points, bronzeTier, clock, FALSE)
      /\ \A k \in 1..Len(transactions[c]) :
            transactions[c][k].transaction_type
              \notin {"tier_downgrade", "tier_protection_adjustment"}

----------------------------------------------------------------------------
\* Evaluation periods of every length and number

\* the criteria of the top tier: periods of one or two days, none to two of
\* them, earnings of one or two points in each
PeriodCriteria ==
    { ("t0" :> NoCriteria) @@ ("t1" :> NoCriteria) @@
      ("t2" :> Criteria(days, periods, earning)) :
        days \in 1..2, periods \in 0..2, earning \in 1..2 }

InitPeriods ==
    /\ EmptyStore
    /\ customers = Customers("t2", "t0")
    /\ criteria \in PeriodCriteria
    /\ priority = [c \in Cust |-> << >>]

SpecPeriods == InitPeriods /\ [][NextTier]_vars

\* the periods of the criteria that hold the date
PeriodsHolding(crit, now, date) ==
    { k \in 0..(crit.consecutive_periods_required - 1) :
        /\ date >= PeriodDates(crit, now, k).periodStartDate
        /\ date < PeriodDates(crit, now, k).periodEndDate }

\* the log with the status of transaction i of c changed
WithStatus(c, i, status) ==
    [transactions EXCEPT ![c][i].status = status]

\* C35: the evaluation periods are the half-open windows
\* [now - (k+1)*d, now - k*d) for k = 0 .. N-1: each starts where the next
\* older one ends, no transaction date lies in two of them, and the earnings
\* of a period are the sum of the completed earn transactions dated in it,
\* so that a transaction of another type or status adds nothing
C35_HalfOpenWindows ==
    \A t \in tiers : criteria[t].exists =>
      LET crit == criteria[t]
          d == crit.evaluation_period_days
          N == crit.consecutive_periods_required
          period(k) == PeriodDates(crit, clock, k)
      IN /\ \A k \in 0..(N - 1) :
              /\ period(k).periodStartDate = clock - (k + 1) * d
              /\ period(k).periodEndDate = clock - k * d
              /\ k + 1 < N =>
                   period(k + 1).periodEndDate = period(k).periodStartDate
         /\ \A c \in Cust :
              /\ \A i \in 1..Len(transactions[c]) :
                   /\ Cardinality(PeriodsHolding(crit, clock,
                        transactions[c][i].transaction_date)) <= 1
                   /\ \A k \in 0..(N - 1) :
                        PeriodNetEarnings(WithStatus(c, i, "pending"), c,
                            period(k).periodStartDate, period(k).periodEndDate)
                          = PeriodNetEarnings(transactions, c,
                              period(k).periodStartDate, period(k).periodEndDate)
                            - (IF /\ transactions[c][i].transaction_type = "earn"
                                  /\ k \in PeriodsHolding(crit, clock,
                                       transactions[c][i].transaction_date)
                               THEN transactions[c][i].points ELSE 0)
              /\ \A k \in 0..(N - 1) :
                   PeriodNetEarnings(transactions, c,
                       period(k).periodStartDate, period(k).periodEndDate)
                     = WindowEarnings(c, clock, d, k)

\* two periods of one day, an earn transaction in each and a third one,
\* dated now, that lies in none
C35_Witness ==
    /\ criteria["t2"].exists
    /\ criteria["t2"].consecutive_periods_required = 2
    /\ \E i, j, k \in 1..Len(transactions["c1"]) :
         /\ transactions["c1"][i].transaction_type = "earn"
         /\ PeriodsHolding(criteria["t2"], clock,
                transactions["c1"][i].transaction_date) = {0}
         /\ transactions["c1"][j].transaction_type = "earn"
         /\ PeriodsHolding(criteria["t2"], clock,
                transactions["c1"][j].transaction_date) = {1}
         /\ transactions["c1"][k].transaction_type = "earn"
         /\ PeriodsHolding(criteria["t2"], clock,
                transactions["c1"][k].transaction_date) = {}

\* C36: when the active criteria of a tier ask for no period
\* (consecutive_periods_required = 0) the evaluation answers RETAIN for
\* every customer with total_points >= 0, whatever the earn history, the
\* balance and the points_required of the tier are, and a run of the
\* scheduled job leaves such a customer of that tier on it
C36_NoPeriodsRetains ==
    /\ [](\A t \in tiers :
            (criteria[t].exists
               /\ criteria[t].consecutive_periods_required = 0)
            => \A c \in Cust, total_points \in 0..(points_required[t] + 1) :
                 /\ checkTierRetentionEligibility(transactions, c,
                        total_points, t, clock, FALSE)
                 /\ PeriodsLoop(transactions, c, criteria[t], clock, 0).reads
                      = 0)
    /\ [][ (HandlerStep("processPointsAndTiers") /\ resp'.logged = {})
           => \A c \in Cust :
                ( /\ customers[c].tier \in tiers
                  /\ criteria[customers[c].tier].exists
                  /\ criteria[customers[c].tier].consecutive_periods_required
                       = 0
                  /\ customers'[c].total_points >= 0 )
                => /\ customers'[c].tier = customers[c].tier
                   /\ AppendedOfType(c, "tier_downgrade") = 0
       ]_vars

\* a run of the scheduled job left a customer on the top tier, whose
\* criteria ask for no period, with a balance below the points_required of
\* the tier and without any earn transaction
C36_Witness ==
    /\ resp.op = "processPointsAndTiers"
    /\ resp.code = 200
    /\ resp.logged = {}
    /\ criteria["t2"].exists
    /\ criteria["t2"].consecutive_periods_required = 0
    /\ customers["c1"].tier = "t2"
    /\ customers["c1"].total_points < points_required["t2"]
    /\ \A k \in 1..Len(transactions["c1"]) :
         transactions["c1"][k].transaction_type # "earn"

\* C37: a customer with no tier is among the customers that
\* processPointsAndTiers selects, and the run leaves it without tier and
\* writes no tier transaction for it, whatever its priority record is; the
\* run goes on: without an injected error it commits and every other
\* selected customer gets the result of its own pass
C37_NoTierCustomerSkipped ==
    [][ HandlerStep("processPointsAndTiers")
        => \A c \in Cust :
             customers[c].tier = NoTier
             => /\ c \in customersToCheck
                /\ customers'[c].tier = NoTier
                /\ AppendedOfType(c, "tier_downgrade") = 0
                /\ AppendedOfType(c, "tier_protection_adjustment") = 0
                /\ resp'.logged = {}
                   => /\ resp'.code = 200
                      /\ \A d \in customersToCheck \ {c} :
                           /\ customers'[d].tier =
                                IF CleanPass(d).tier = "keep"
                                THEN customers[d].tier
                                ELSE CleanPass(d).tier
                           /\ AppendedOfType(d, "tier_downgrade") =
                                IF CleanPass(d).tier \in tiers
                                     /\ CleanPass(d).evaluated
                                THEN 1 ELSE 0
      ]_vars

\* a committed run left c1, which has no tier and an active priority
\* record, as it was and lowered c2 in the same run
C37_Witness ==
    /\ resp.op = "processPointsAndTiers"
    /\ resp.code = 200
    /\ resp.logged = {}
    /\ customers["c1"].tier = NoTier
    /\ priorityTier("c1") # NoTier
    /\ \A k \in 1..Len(transactions["c1"]) :
         transactions["c1"][k].transaction_type
           \notin {"tier_downgrade", "tier_protection_adjustment"}
    /\ customers["c2"].tier = bronzeTier
    /\ Len(transactions["c2"]) > 0
    /\ transactions["c2"][Len(transactions["c2"])].transaction_type
         = "tier_downgrade"
    /\ transactions["c2"][Len(transactions["c2"])].transaction_date = clock

\* C38: addPointsIndividual and addPointsBulk raise the coins of a customer
\* by the amount they raise total_points by, reducePoints and
\* processPointsAndTiers leave the coins as they are, and no step lowers the
\* coins of a customer
C38_CoinsFollowGrantsOnly ==
    [][ \A c \in Cust :
          /\ customers'[c].coins >= customers[c].coins
          /\ ( HandlerStep("addPointsIndividual")
               \/ HandlerStep("addPointsBulk") )
             => /\ customers'[c].coins - customers[c].coins
                     = customers'[c].total_points - customers[c].total_points
                /\ customers'[c].coins - customers[c].coins
                     = SumOver(AppendedTxns(c),
                               [j \in AppendedTxns(c) |->
                                  transactions'[c][j].points])
          /\ ( HandlerStep("reducePoints")
               \/ HandlerStep("processPointsAndTiers") )
             => customers'[c].coins = customers[c].coins
      ]_vars

\* a customer whose grants were partly redeemed and partly expired: the
\* coins still hold every point granted, the balance does not
C38_Witness ==
    \E c \in Cust :
      /\ customers[c].coins > customers[c].total_points
      /\ customers[c].coins =
           SumSeq([k \in 1..Len(transactions[c]) |->
                     IF transactions[c][k].transaction_type = "earn"
                     THEN transactions[c][k].points ELSE 0])
      /\ \E i, j \in 1..Len(transactions[c]) :
           /\ transactions[c][i].transaction_type = "redeem"
           /\ transactions[c][i].points < 0
           /\ transactions[c][j].transaction_type = "expire"
           /\ transactions[c][j].points < 0

----------------------------------------------------------------------------
\* The calls of a handler on its unit of work, one step each

\* a call on the SafeTransaction, or the answer of the handler with its code
Call(name, code) == [name |-> name, code |-> code]

Names(calls) == [k \in 1..Len(calls) |-> calls[k].name]

\* await transaction.abort(); return response_handler(res, code, ...), also
\* in the catch block; the finally block ends the session after the return
\* value is computed
AbortAndAnswer(code) ==
    << Call("abort", 0), Call("respond", code), Call("end", 0) >>

\* await transaction.commit(); return response_handler(res, code, ...)
CommitAndAnswer(code) ==
    << Call("commit", 0), Call("respond", code), Call("end", 0) >>

\* transaction.commit() throws: the catch block aborts and answers 500
CommitThrows == << Call("commit_throws", 0) >> \o AbortAndAnswer(500)

Started(calls) == << Call("start", 0) >> \o calls

\* thrown: "none", "await" (an await of the try block throws) or "commit"
Thrown == {"none", "await", "commit"}

\* an addPointsIndividual that answers an unknown customer without abort
addPointsIndividualCallsNoAbort(customer_id, point_criteria, thrown) ==
    Started(
      IF thrown = "await" THEN AbortAndAnswer(500)
      ELSE IF customer_id \notin Cust
      THEN << Call("respond", 404), Call("end", 0) >>
      ELSE IF point_criteria \notin PointCriteriaIds THEN AbortAndAnswer(404)
      ELSE IF ~getManualPointsForCriteria(pointSystem[point_criteria]).success
      THEN AbortAndAnswer(400)
      ELSE IF thrown = "commit" THEN CommitThrows
      ELSE CommitAndAnswer(201))

addPointsIndividualCalls(customer_id, point_criteria, thrown) ==
    Started(
      IF thrown = "await" THEN AbortAndAnswer(500)
      ELSE IF customer_id \notin Cust THEN AbortAndAnswer(404)
      ELSE IF point_criteria \notin PointCriteriaIds THEN AbortAndAnswer(404)
      ELSE IF ~getManualPointsForCriteria(pointSystem[point_criteria]).success
      THEN AbortAndAnswer(400)
      ELSE IF thrown = "commit" THEN CommitThrows
      ELSE CommitAndAnswer(201))

\* the rejections before the unit of work is created answer without one
addPointsBulkCalls(upload, rows, thrown) ==
    IF upload # "ok" \/ rows = << >> THEN << Call("respond", 400) >>
    ELSE IF validationErrors(rows) # {} THEN << Call("respond", 400) >>
    ELSE Started(
           IF thrown = "await" THEN AbortAndAnswer(500)
           ELSE IF thrown = "commit" THEN CommitThrows
           ELSE CommitAndAnswer(200))

reducePointsCalls(customer_id, numericPoints, validPoints, failAt, thrown) ==
    Started(
      IF thrown = "await" THEN AbortAndAnswer(500)
      ELSE IF customer_id \notin Cust THEN AbortAndAnswer(404)
      ELSE IF numericPoints <= 0 THEN AbortAndAnswer(400)
      ELSE IF ~redeemPointsFIFO(validPoints, numericPoints, failAt).success
      THEN AbortAndAnswer(400)
      ELSE IF thrown = "commit" THEN CommitThrows
      ELSE CommitAndAnswer(200))

\* the writes a request has issued under its session when it reaches the end
\* of the try block, or when it leaves the block early
addPointsIndividualWrites(customer_id, point_criteria) ==
    IF /\ customer_id \in Cust
       /\ point_criteria \in PointCriteriaIds
       /\ getManualPointsForCriteria(pointSystem[point_criteria]).success
    THEN AddPlan(customer_id,
                 getManualPointsForCriteria(pointSystem[point_criteria]).points,
                 DefaultRequestedBy, {})
    ELSE EmptyPlan

addPointsBulkWrites(upload, rows) ==
    IF upload = "ok" /\ rows # << >> /\ validationErrors(rows) = {}
    THEN BulkPlan(rows, {})
    ELSE EmptyPlan

reducePointsWrites(customer_id, numericPoints, validPoints, failAt) ==
    IF customer_id \in Cust /\ numericPoints > 0
    THEN LET fifoResult == redeemPointsFIFO(validPoints, numericPoints, failAt)
         IN IF fifoResult.success
            THEN ReducePlan(customer_id, numericPoints, fifoResult)
            ELSE [EmptyPlan EXCEPT !.ledgerWrites = fifoResult.writes]
    ELSE EmptyPlan

\* the request being served, or the last one served: the calls made so far,
\* the calls still to make and the writes buffered under the session
Served(op, customer_id, calls, writes) ==
    [kind |-> op, customer_id |-> customer_id, made |-> << >>,
     calls |-> calls, writes |-> writes]

Arrive(op, customer_id, calls, writes) ==
    /\ \A i \in 1..Len(inflight) : inflight[i].calls = << >>
    /\ TotalTxns + Len(writes.txns) <= MaxTxns
    /\ inflight' = << Served(op, customer_id, calls, writes) >>
    /\ UNCHANGED <<clock, customers, ledger, transactions, criteria,
                   priority, resp>>

addPointsIndividualArrives ==
    \E c \in Cust \cup {UnknownCustomer},
       pc \in {"pcOne", "pcTwo", "pcBad", UnknownCriteria},
       thrown \in Thrown :
      Arrive("addPointsIndividual", c,
             addPointsIndividualCalls(c, pc, thrown),
             addPointsIndividualWrites(c, pc))

addPointsBulkArrives ==
    \E upload \in {"ok", "nofile"},
       rows \in SeqsUpTo(ValidRows, MaxRows)
                  \cup { << Row(FALSE, "c1", 1, TRUE, "pcOne", "note") >> },
       thrown \in Thrown :
      Arrive("addPointsBulk", "none",
             addPointsBulkCalls(upload, rows, thrown),
             addPointsBulkWrites(upload, rows))

reducePointsArrives ==
    \E c \in Cust \cup {UnknownCustomer}, points \in 0..MaxRedeem,
       thrown \in Thrown :
      \E o \in OrdersFor(c) :
        \E failAt \in 0..(Len(o) + 1) :
          /\ (IF failAt = 0 THEN 0 ELSE 1)
               + (IF thrown = "none" THEN 0 ELSE 1) <= MaxFail
          /\ Arrive("reducePoints", c,
                    reducePointsCalls(c, points, ReadEntries(ledger, o),
                                      failAt, thrown),
                    reducePointsWrites(c, points, ReadEntries(ledger, o),
                                       failAt))

\* the next call of the request being served: commit applies the buffered
\* writes, every other call leaves the collections as they are
NextCall ==
    /\ inflight # << >>
    /\ inflight[1].calls # << >>
    /\ LET u == inflight[1]
           call == Head(u.calls)
       IN /\ IF call.name = "commit" THEN Commit(u.writes) ELSE Abort
          /\ resp' = IF call.name = "respond"
                     THEN Response(u.kind, u.customer_id, call.code,
                                   0, 0, 0, << >>, {})
                     ELSE resp
          /\ inflight' = << [u EXCEPT !.made = Append(@, call.name),
                                      !.calls = Tail(@)] >>
    /\ UNCHANGED <<clock, criteria, priority>>

NextUnit ==
    \/ addPointsIndividualArrives
    \/ addPointsBulkArrives
    \/ reducePointsArrives
    \/ NextCall

SpecUnit == Init /\ [][NextUnit]_vars

\* positions of a call in a sequence of call names
At(names, name) == { k \in 1..Len(names) : names[k] = name }

\* C39: a 200 or 201 is answered only after the commit of the unit of work
\* and without any abort; a 4xx or 5xx is answered either without any unit
\* of work or after its abort and without a commit, and the request leaves
\* the collections as they were; a unit of work that was started is ended
\* once, as the last call, on every path
C39_RespondAfterCommitOrAbort ==
    /\ [](\A i \in 1..Len(inflight) :
            LET made == inflight[i].made
                path == made \o Names(inflight[i].calls)
            IN /\ \A j \in At(made, "respond") :
                    IF resp.code \in {200, 201}
                    THEN /\ \E k \in At(made, "commit") : k < j
                         /\ At(made, "abort") = {}
                    ELSE /\ resp.code >= 400
                         /\ At(made, "commit") = {}
                         /\ \/ At(made, "start") = {}
                            \/ \E k \in At(made, "abort") : k < j
               /\ Cardinality(At(path, "respond")) = 1
               /\ Cardinality(At(path, "start")) <= 1
               /\ Cardinality(At(path, "end"))
                    = Cardinality(At(path, "start"))
               /\ At(path, "start") # {}
                  => /\ path[1] = "start"
                     /\ path[Len(path)] = "end"
               /\ Cardinality(At(path, "commit"))
                    + Cardinality(At(path, "abort")) <= 1)
    /\ [][ <<customers, ledger, transactions>>'
             # <<customers, ledger, transactions>>
           => /\ inflight'[1].made = Append(inflight[1].made, "commit")
              /\ \A j \in At(Names(inflight[1].calls), "respond") :
                   inflight[1].calls[j].code \in {200, 201}
       ]_vars

\* a redemption answered 400 after the abort of a unit of work that had
\* written to a ledger entry, and ended
C39_Witness ==
    /\ inflight # << >>
    /\ inflight[1].kind = "reducePoints"
    /\ inflight[1].made = << "start", "abort", "respond", "end" >>
    /\ inflight[1].writes.ledgerWrites # << >>
    /\ resp.code = 400
    /\ \E c \in Cust : ledger[c] # << >>

====
